---------------------------- MODULE Spec2Model ----------------------------
(***************************************************************************)
(* Model of the TzafonWright MCP server core:                              *)
(*   - TzafonWrightClient (src/src/tzafonwright/client.ts): one WebSocket  *)
(*     per client, connect / sendAction / close;                           *)
(*   - the session manager (src/unnamed/part_002, sessionManager.ts): the  *)
(*     browsers map, the default session slot, the active session id;      *)
(*   - the bulk provisioner (createBulkSessions in client.ts) with the     *)
(*     bulk-create tool (src/unnamed/part_006) and the multi-session store *)
(*     (src/src/tzafonwrightStore.ts).                                     *)
(* Async functions are cut at the awaits where control can pass to another *)
(* task; every synchronous run between two awaits is one action.           *)
(***************************************************************************)
EXTENDS Integers, FiniteSets, Sequences, TLC

\* ------------------------------------------------------------------ bounds
\* Client objects (new TzafonWrightClient) that one behaviour may allocate.
MaxConns == 2
\* Client objects a direct caller of the client class may allocate.
MaxUserConns == 1
\* sendAction calls that one behaviour may issue.
MaxCalls == 2
\* Clock ticks the model follows a pending call for.
MaxTicks == 2
\* Milliseconds per clock tick.
TickMs == 20000
\* Largest count the bulk-create tool is called with when its connections are followed.
MaxCount == 4
\* Largest count and batchSize for which the batch loop alone is followed.
MaxPlanCount == 13
MaxPlanBatch == 6

\* ------------------------------------------------------- program constants
\* timeout: command.timeout || 30000
DefaultTimeout == 30000

\* Client objects: the session manager allocates at most MaxConns of them, one
\* bulk-create call at most MaxCount.
Conns == 1..(IF MaxCount > MaxConns THEN MaxCount ELSE MaxConns)
CallIds == 1..MaxCalls
NoClient == 0
NoCall == 0
\* command.timeout as the caller passes it: undefined, 0 or a positive number
NoHint == -1
Hints == {NoHint, 0, TickMs}

\* defaultSessionId and the ids callers pass to the session manager
DefaultId == "main"
NamedIds == {"a"}
Ids == {DefaultId} \cup NamedIds
NoId == "none"
\* Slots for the call chains in flight at one time (chains are interchangeable).
Tasks == {1, 2}

\* BrowserSession = { client, sessionId }; NoSession stands for null/undefined
NoSession == [client |-> NoClient, sessionId |-> NoId]
SessionObj(c, id) == [client |-> c, sessionId |-> id]

VARIABLES
    \* --- TzafonWrightClient objects
    nextConn,        \* number of client objects allocated so far
    ws,              \* ws[c]: "null" or the WebSocket's readyState
    isConnected,     \* isConnected[c]: the client's private flag
    connectPromise,  \* connectPromise[c]: "none" | "pending" | "resolved" | "rejected"
    closeInvoked,    \* closeInvoked[c]: close() has been called on c (history)
    \* --- sendAction
    listeners,       \* listeners[c]: calls whose messageHandler is attached to c's socket
    outstanding,     \* outstanding[c]: calls whose command frame the server has not answered
    calls,           \* calls[k]: one sendAction invocation
    \* --- session manager module state
    browsers,                \* Map<string, BrowserSession>
    defaultBrowserSession,   \* BrowserSession | null
    activeSessionId,
    \* --- callers
    task,            \* task[t]: the async call chain task t is in
    last,            \* the step just taken (history)
    \* --- multi-session store and bulk provisioner
    store,           \* tzafonwrightStore's Map<string, TzafonWrightSession>, as a set
    bulk,            \* the createBulkSessions call of the bulk-create tool
    plan,            \* the batch loop of createBulkSessions, followed on its own
    \* --- the process
    proc,            \* the exit watchdog: signals handled, cleanup, timers, exit
    \* --- response images and the tools' shared Context
    codec,           \* one response frame's image field and the Result made of it
    currentSessionId \* Context.currentSessionId of the server's one Context: <<id>> for an
                     \* id of the session manager, or an id of the store

connVars == <<nextConn, ws, isConnected, connectPromise, closeInvoked>>
callVars == <<listeners, outstanding, calls>>
regVars == <<browsers, defaultBrowserSession, activeSessionId>>
bulkVars == <<store, bulk, plan, proc, codec, currentSessionId>>
vars == <<nextConn, ws, isConnected, connectPromise, closeInvoked,
          listeners, outstanding, calls,
          browsers, defaultBrowserSession, activeSessionId, task, last,
          store, bulk, plan, proc, codec, currentSessionId>>

\* ------------------------------------------------------------------ history
\* op: the step; id, cim: its arguments; via: the entry point of
\* the call chain; ret / threw: what it returned to its caller; found: the registry
\* entry it read; live: that entry's client was connected when read; stale: the
\* default session's client if it was not connected when the chain started;
\* attempts: createNewBrowserSession calls made by the chain; wasActive: id was the
\* active id when a removing step ran; thrown: the clients whose close() threw;
\* call: the sendAction call whose Result the step received; removed: the store
\* ids a removal was called for; dropped: the clients of the sessions that
\* closeAllSessions cleared out of the map and the default slot.
NoStep == [op |-> "init", id |-> NoId, cim |-> FALSE, via |-> "none",
           ret |-> NoSession, threw |-> FALSE, found |-> NoSession, live |-> FALSE,
           stale |-> NoClient, attempts |-> 0, wasActive |-> FALSE, thrown |-> {},
           call |-> NoCall, removed |-> {}, dropped |-> {}]

Step(op, id) == [NoStep EXCEPT !.op = op, !.id = id]

\* --------------------------------------------------------------------- tasks
\* pc: the await the chain is suspended at; op: its entry point; client: the client
\* createTzafonWrightClient is connecting; attempts, stale, found: as in the history;
\* sessionContext: the currentSessionId a session tool's own context object holds.
NoContext == <<>>

\* call: the sendAction call the chain is awaiting; ids, thrown: the store ids whose
\* remove() is awaiting close(), and the clients whose close() threw.
IdleTask == [pc |-> "idle", op |-> "none", id |-> NoId, client |-> NoClient,
             attempts |-> 0, stale |-> NoClient, found |-> NoSession, call |-> NoCall,
             ids |-> {}, thrown |-> {}, sessionContext |-> NoContext]

\* error_message left undefined
NoMessage == "undefined"

\* state: the promise sendAction returned; kind: how it settled; res: the call whose
\* command the frame that settled it answers; hint, timeout: command.timeout and
\* the frame's timeout field; success, error_message: the Result of a resolved call;
\* frame: the inbound frame its messageHandler was called with (history).
NoFrame == [kind |-> "none", success |-> FALSE, error_message |-> NoMessage]

UnusedCall == [state |-> "unused", conn |-> NoClient,
               kind |-> "none", res |-> NoCall, elapsed |-> 0, timeout |-> 0,
               hint |-> NoHint, success |-> FALSE, error_message |-> NoMessage,
               frame |-> NoFrame]

\* ------------------------------------------------------------ bulk records
\* options.batchSize left undefined
NoBatchSize == 0

\* results of createBulkSessions: successful [client, sessionId, name], failed
\* [error, name], batchResults [batchNumber, successful, failed]
NoResults == [successful |-> <<>>, failed |-> <<>>, batchResults |-> <<>>]

\* pc: "idle", "batch" (await Promise.allSettled), "delay" (await setTimeout) or
\* "done"; attempts[i]: what the async function of global index i-1 holds and returns;
\* delays: batchDelay timers that have fired (history).
IdleBulk == [pc |-> "idle", count |-> 0, namePrefix |-> "", batchSize |-> 0,
             totalBatches |-> 0, batchIndex |-> 0, attempts |-> <<>>,
             results |-> NoResults, delays |-> 0]

NoPlan == [count |-> 0, option |-> NoBatchSize, batchSize |-> 0, totalBatches |-> 0,
           batchIndex |-> 0, sizes |-> <<>>]

\* ------------------------------------------------------------ response images
\* The longest image and the byte values tried.
MaxImageLen == 3
ImageBytes == {0, 63, 128, 255}

\* response.image left out of the frame
NoImage == <<-1>>

\* stage: "none", "frame" (a frame arrived), "result" (messageHandler built the
\* Result); bytes: what the remote side encoded (history); image: response.image;
\* hasImage, out: whether result.image was set, and its bytes.
NoImageFrame == [stage |-> "none", bytes |-> <<>>, image |-> NoImage,
                 hasImage |-> FALSE, out |-> <<>>]

\* The exit watchdog. signals: handleExit invocations; closeAll[h]: the promise of
\* serverList.closeAll() of invocation h; timer[h]: its 15 s timer; stored, managed:
\* the clients the store and the session manager held when a signal was handled;
\* thrown: the clients whose close() threw in a handler (history); by: what called
\* process.exit; logged: the catch logged an error.
NoSignal == [signals |-> 0, closeAll |-> <<>>, timer |-> <<>>,
             stored |-> {}, managed |-> {}, thrown |-> {},
             exited |-> FALSE, by |-> "none", logged |-> FALSE]

Init ==
    /\ nextConn = 0
    /\ ws = [c \in Conns |-> "null"]
    /\ isConnected = [c \in Conns |-> FALSE]
    /\ connectPromise = [c \in Conns |-> "none"]
    /\ closeInvoked = [c \in Conns |-> FALSE]
    /\ listeners = [c \in Conns |-> {}]
    /\ outstanding = [c \in Conns |-> {}]
    /\ calls = [k \in CallIds |-> UnusedCall]
    /\ browsers = [i \in Ids |-> NoSession]
    /\ defaultBrowserSession = NoSession
    /\ activeSessionId = DefaultId
    /\ task = [t \in Tasks |-> IdleTask]
    /\ last = NoStep
    /\ store = {}
    /\ bulk = IdleBulk
    /\ plan = NoPlan
    /\ proc = NoSignal
    /\ codec = NoImageFrame
    /\ currentSessionId = <<DefaultId>>

\* ============================================================ the client
\* new TzafonWrightClient(url); client.connect(): the socket is constructed and
\* the three handlers are registered; the promise settles on "open" or "error".
connect(c) ==
    /\ c = nextConn + 1
    /\ c \in Conns
    /\ nextConn' = c
    /\ ws' = [ws EXCEPT ![c] = "connecting"]
    /\ connectPromise' = [connectPromise EXCEPT ![c] = "pending"]
    /\ UNCHANGED <<isConnected, closeInvoked>>

\* A close() that tests the flag instead of the socket.
close_WhenConnected(c) ==
    /\ closeInvoked' = [closeInvoked EXCEPT ![c] = TRUE]
    /\ IF isConnected[c]
          THEN /\ ws' = [ws EXCEPT ![c] = "closing"]
               /\ isConnected' = [isConnected EXCEPT ![c] = FALSE]
          ELSE UNCHANGED <<ws, isConnected>>
    /\ UNCHANGED <<nextConn, connectPromise>>

\* close(): if (this.ws) { this.ws.close(); this.isConnected = false; }
close(c) ==
    /\ closeInvoked' = [closeInvoked EXCEPT ![c] = TRUE]
    /\ IF ws[c] # "null"
          THEN /\ ws' = [ws EXCEPT ![c] =
                           IF @ \in {"connecting", "open"} THEN "closing" ELSE @]
               /\ isConnected' = [isConnected EXCEPT ![c] = FALSE]
          ELSE UNCHANGED <<ws, isConnected>>
    /\ UNCHANGED <<nextConn, connectPromise>>

\* A closeAllSessions whose batch of closes is abandoned at the first close that throws.
closeEach_AbortOnThrow(S, thrown) ==
    /\ closeInvoked' = [c \in Conns |-> closeInvoked[c] \/ (c \in S /\ thrown = {})]
    /\ ws' = [c \in Conns |->
                IF c \in S /\ thrown = {} /\ ws[c] \in {"connecting", "open"}
                   THEN "closing" ELSE ws[c]]
    /\ isConnected' = [c \in Conns |->
                IF c \in S /\ thrown = {} /\ ws[c] # "null" THEN FALSE ELSE isConnected[c]]
    /\ UNCHANGED <<nextConn, connectPromise>>

\* close() on every client of the set S (the synchronous parts of several close calls,
\* each inside closeBrowserGracefully's try/catch). For the clients in `thrown` the
\* socket's close() throws: the socket and the flag stay as they were.
closeEach(S, thrown) ==
    /\ closeInvoked' = [c \in Conns |-> closeInvoked[c] \/ c \in S]
    /\ ws' = [c \in Conns |->
                IF c \in S \ thrown /\ ws[c] \in {"connecting", "open"}
                   THEN "closing" ELSE ws[c]]
    /\ isConnected' = [c \in Conns |->
                IF c \in S \ thrown /\ ws[c] # "null" THEN FALSE ELSE isConnected[c]]
    /\ UNCHANGED <<nextConn, connectPromise>>

\* An "open" that is still delivered after close() was called during the handshake.
OnOpen_Late(c) ==
    /\ ws[c] \in {"connecting", "closing"}
    /\ ws' = [ws EXCEPT ![c] = "open"]
    /\ isConnected' = [isConnected EXCEPT ![c] = TRUE]
    /\ connectPromise' = [connectPromise EXCEPT ![c] = "resolved"]
    /\ UNCHANGED <<nextConn, closeInvoked>>

\* ws.on("open"): isConnected = true; resolve()
OnOpen(c) ==
    /\ ws[c] = "connecting"
    /\ ws' = [ws EXCEPT ![c] = "open"]
    /\ isConnected' = [isConnected EXCEPT ![c] = TRUE]
    /\ connectPromise' = [connectPromise EXCEPT ![c] = "resolved"]
    /\ UNCHANGED <<nextConn, closeInvoked>>

\* ws.on("error"): isConnected = false; reject(error). The socket then closes.
OnError(c) ==
    /\ \/ ws[c] \in {"connecting", "open"}
       \/ ws[c] = "closing" /\ connectPromise[c] = "pending"
    /\ ws' = [ws EXCEPT ![c] = "closing"]
    /\ isConnected' = [isConnected EXCEPT ![c] = FALSE]
    /\ connectPromise' = [connectPromise EXCEPT ![c] =
                            IF @ = "pending" THEN "rejected" ELSE @]
    /\ UNCHANGED <<nextConn, closeInvoked>>

\* ws.on("close"): isConnected = false. The peer may close an open socket at any time.
OnClose(c) ==
    /\ ws[c] \in {"open", "closing"}
    /\ ws' = [ws EXCEPT ![c] = "closed"]
    /\ isConnected' = [isConnected EXCEPT ![c] = FALSE]
    /\ UNCHANGED <<nextConn, connectPromise, closeInvoked>>

\* ============================================================ sendAction
\* timeout: command.timeout || 30000
FrameTimeout(hint) == IF hint = NoHint \/ hint = 0 THEN DefaultTimeout ELSE hint

\* A test that looks at the socket only.
NotConnected_NoSocket(c) == ws[c] = "null"

\* if (!this.ws || !this.isConnected) return { success: false, "Client not connected" }
NotConnected(c) == ws[c] = "null" \/ ~isConnected[c]

\* sendAction(command) as call k on client c: the not-connected result, or
\* attach messageHandler and send the frame; the promise stays pending.
issue(k, c, hint) ==
    /\ k \in CallIds /\ calls[k].state = "unused"
    /\ \A j \in CallIds : j < k => calls[j].state # "unused"
    /\ c \in 1..nextConn
    /\ IF NotConnected(c)
          THEN /\ calls' = [calls EXCEPT ![k] =
                    [UnusedCall EXCEPT !.state = "resolved", !.conn = c,
                                       !.kind = "notConnected", !.hint = hint,
                                       !.error_message = "Client not connected"]]
               /\ UNCHANGED <<listeners, outstanding>>
          ELSE /\ calls' = [calls EXCEPT ![k] =
                    [UnusedCall EXCEPT !.state = "pending", !.conn = c,
                                       !.hint = hint,
                                       !.timeout = FrameTimeout(hint)]]
               /\ listeners' = [listeners EXCEPT ![c] = @ \cup {k}]
               /\ outstanding' = [outstanding EXCEPT ![c] = @ \cup {k}]

\* sendAction called by a caller that holds the client.
sendAction(k, c, hint) ==
    /\ issue(k, c, hint)
    /\ UNCHANGED <<connVars, regVars, task, last, bulkVars>>

\* Inbound frames: text that is not JSON, the JSON value null, a JSON number or
\* string (its fields read as undefined), or a JSON object with or without the fields
\* success and error_message.
Responses ==
    {[kind |-> "garbage", success |-> FALSE, error_message |-> NoMessage],
     [kind |-> "null", success |-> FALSE, error_message |-> NoMessage],
     [kind |-> "scalar", success |-> FALSE, error_message |-> NoMessage]}
    \cup [kind : {"object"}, success : BOOLEAN, error_message : {NoMessage, "boom"}]

\* A messageHandler that resolves with a failed Result when the frame does not parse.
messageHandler_Lenient(call, re, response) ==
    [call EXCEPT !.state = "resolved", !.kind = "result", !.res = re,
                 !.success = response.success,
                 !.error_message = response.error_message]

\* messageHandler(data) of call k for a frame that answers call re's command:
\* JSON.parse and the reads of response.success, response.error_message succeed ->
\* off("message"), resolve(result); one of them throws -> off, reject.
messageHandler(call, re, response) ==
    IF response.kind \in {"object", "scalar"}
       THEN [call EXCEPT !.state = "resolved", !.kind = "result", !.res = re,
                         !.success = response.success,
                         !.error_message = response.error_message]
       ELSE [call EXCEPT !.state = "rejected", !.kind = "decodeError"]

\* One inbound frame on c's socket: the emitter calls every attached listener with it.
\* The server answers the outstanding commands in any order; a frame may be malformed.
WsMessage(c, re, response) ==
    /\ ws[c] = "open"
    /\ re \in outstanding[c]
    /\ outstanding' = [outstanding EXCEPT ![c] = @ \ {re}]
    /\ calls' = [k \in CallIds |->
                   IF k \in listeners[c]
                      THEN [messageHandler(calls[k], re, response) EXCEPT
                               !.frame = response]
                                         ELSE calls[k]]
    /\ listeners' = [listeners EXCEPT ![c] = {}]
    /\ UNCHANGED <<connVars, regVars, task, last, bulkVars>>

\* Time passes: sendAction arms no timer, so a tick only ages the pending calls.
Tick ==
    /\ \E k \in CallIds : calls[k].state = "pending" /\ calls[k].elapsed < MaxTicks
    /\ calls' = [k \in CallIds |->
                   IF calls[k].state = "pending" /\ calls[k].elapsed < MaxTicks
                      THEN [calls[k] EXCEPT !.elapsed = @ + 1]
                      ELSE calls[k]]
    /\ UNCHANGED <<connVars, listeners, outstanding, regVars, task, last, bulkVars>>

\* A caller that holds clients directly: connect(), close().
UserConnect(c) ==
    /\ c <= MaxUserConns
    /\ connect(c)
    /\ UNCHANGED <<callVars, regVars, task, last, bulkVars>>

UserClose(c) ==
    /\ c \in 1..nextConn
    /\ close(c)
    /\ UNCHANGED <<callVars, regVars, task, last, bulkVars>>

\* The socket's events, seen by a direct caller of the client class.
SockOpen(c) == OnOpen(c) /\ UNCHANGED <<callVars, regVars, task, last, bulkVars>>

SockError(c) == OnError(c) /\ UNCHANGED <<callVars, regVars, task, last, bulkVars>>

SockClose(c) == OnClose(c) /\ UNCHANGED <<callVars, regVars, task, last, bulkVars>>

NextConn ==
    \/ \E c \in Conns : UserConnect(c)
    \/ \E c \in Conns : UserClose(c)
    \/ \E c \in Conns : SockOpen(c)
    \/ \E c \in Conns : SockError(c)
    \/ \E c \in Conns : SockClose(c)
    \/ \E k \in CallIds, c \in Conns, h \in Hints : sendAction(k, c, h)
    \/ \E c \in Conns, re \in CallIds, response \in Responses : WsMessage(c, re, response)
    \/ Tick

SpecConn == Init /\ [][NextConn]_vars

\* ------------------------------------------------ calls of a direct caller
\* new TzafonWrightClient(url) by a caller that issues calls on it unconnected.
CallerNew(c) ==
    /\ c <= MaxUserConns
    /\ c = nextConn + 1
    /\ nextConn' = c
    /\ UNCHANGED <<ws, isConnected, connectPromise, closeInvoked>>
    /\ UNCHANGED <<callVars, regVars, task, last, bulkVars>>

\* client.screenshot(): sendAction({ action_type: SCREENSHOT }), no timeout given.
screenshot(k, c) ==
    /\ c \in 1..nextConn
    /\ sendAction(k, c, NoHint)

\* A caller's clients, connected or not, its calls and the frames that answer them;
\* time is not followed.
NextCall ==
    \/ \E c \in Conns : CallerNew(c)
    \/ \E c \in Conns : UserConnect(c)
    \/ \E c \in Conns : UserClose(c)
    \/ \E c \in Conns : SockOpen(c)
    \/ \E c \in Conns : SockError(c)
    \/ \E c \in Conns : SockClose(c)
    \/ \E k \in CallIds, c \in Conns : screenshot(k, c)
    \/ \E c \in Conns, re \in CallIds, response \in Responses : WsMessage(c, re, response)

SpecCall == Init /\ [][NextCall]_vars

\* ------------------------------------------------ the life of client objects
\* Client objects a direct caller constructs when only their sockets are followed.
MaxLifeConns == 3

\* new TzafonWrightClient(url) by a caller that does not go on to connect it.
UserNew(c) ==
    /\ c <= MaxLifeConns
    /\ c = nextConn + 1
    /\ nextConn' = c
    /\ UNCHANGED <<ws, isConnected, connectPromise, closeInvoked>>
    /\ UNCHANGED <<callVars, regVars, task, last, bulkVars>>

\* new TzafonWrightClient(url); client.connect()
UserOpen(c) ==
    /\ c <= MaxLifeConns
    /\ connect(c)
    /\ UNCHANGED <<callVars, regVars, task, last, bulkVars>>

\* Clients in the hands of a caller that constructs, connects and closes them, and
\* their sockets' events.
NextLife ==
    \/ \E c \in Conns : UserNew(c)
    \/ \E c \in Conns : UserOpen(c)
    \/ \E c \in Conns : UserClose(c)
    \/ \E c \in Conns : SockOpen(c)
    \/ \E c \in Conns : SockError(c)
    \/ \E c \in Conns : SockClose(c)

SpecLife == Init /\ [][NextLife]_vars

\* ---------------------------------------------------------------- C1
PendingOn(c) == {k \in CallIds : calls[k].state = "pending" /\ calls[k].conn = c}

\* C1: single flight. At most one sendAction is outstanding on a client at any
\* instant, and a call that resolves with a response frame resolves with the
\* frame that answers its own command.
C1_SingleFlight ==
    /\ \A c \in Conns : Cardinality(PendingOn(c)) <= 1
    /\ \A k \in CallIds :
          calls[k].state = "resolved" /\ calls[k].kind = "result" => calls[k].res = k

\* ---------------------------------------------------------------- C2
\* C2: a call on an open connection settles by its timeout: no call is still
\* pending, with its listener attached, after more than its timeout has elapsed
\* without an inbound message.
C2_CallTimesOut ==
    \A k \in CallIds :
        calls[k].state = "pending" /\ ws[calls[k].conn] = "open"
            => calls[k].elapsed * TickMs <= calls[k].timeout

\* ======================================================= session manager
\* A new call chain takes the lowest free slot.
Free(t) == task[t].pc = "idle" /\ \A u \in Tasks : task[u].pc = "idle" => t <= u

Has(map, id) == map[id] # NoSession

\* A setActiveSessionId without the membership test.
setActiveSessionId_Unchecked(id, map, active) == id

\* setActiveSessionId(id): if (browsers.has(id) || id === defaultSessionId) active = id
setActiveSessionId(id, map, active) ==
    IF Has(map, id) \/ id = DefaultId THEN id ELSE active

\* A staleness test that fails every session.
IsStale_Always(session) == TRUE

\* The staleness test the manager applies to a session: !session.client
IsStale(session) == session.client = NoClient

\* The socket's events while the session manager's chains are running.
WsOpen(c) ==
    /\ OnOpen(c)
    /\ last' = Step("env", NoId)
    /\ UNCHANGED <<callVars, bulkVars, regVars, task>>

WsError(c) ==
    /\ OnError(c)
    /\ last' = Step("env", NoId)
    /\ UNCHANGED <<callVars, bulkVars, regVars, task>>

WsClose(c) ==
    /\ OnClose(c)
    /\ last' = Step("env", NoId)
    /\ UNCHANGED <<callVars, bulkVars, regVars, task>>

\* createNewBrowserSession(id) up to `await client.connect()` inside
\* createTzafonWrightClient (config.proxyUrl is set; config.viewPort is not).
createTzafonWrightClient(t, op, id, attempts, stale) ==
    /\ nextConn < MaxConns
    /\ connect(nextConn + 1)
    /\ task' = [task EXCEPT ![t] =
                  [IdleTask EXCEPT !.pc = "connecting", !.op = op, !.id = id,
                                   !.client = nextConn + 1, !.attempts = attempts,
                                   !.stale = stale]]

\* A createNewBrowserSession that marks the id active before it connects.
createNewBrowserSession_Eager(t, id) ==
    /\ Free(t)
    /\ id \in NamedIds
    /\ createTzafonWrightClient(t, "createNamed", id, 1, NoClient)
    /\ last' = [Step("create_start", id) EXCEPT !.via = "createNamed", !.attempts = 1]
    /\ activeSessionId' = id
    /\ UNCHANGED <<callVars, bulkVars, browsers, defaultBrowserSession>>

\* handleCreateSession with a sessionId: createNewBrowserSession(targetSessionId)
createNewBrowserSession(t, id) ==
    /\ Free(t)
    /\ id \in NamedIds
    /\ createTzafonWrightClient(t, "createNamed", id, 1, NoClient)
    /\ last' = [Step("create_start", id) EXCEPT !.via = "createNamed", !.attempts = 1]
    /\ UNCHANGED <<callVars, bulkVars, regVars>>

\* connect() resolved: createNewBrowserSession stores the session, marks it active and
\* returns it; ensureDefaultSessionInternal assigns it to the default slot again.
CreateOk(t) ==
    LET me == task[t]
        sessionObj == SessionObj(me.client, me.id)
        map == [browsers EXCEPT ![me.id] = sessionObj]
    IN  /\ me.pc = "connecting"
        /\ connectPromise[me.client] = "resolved"
        /\ browsers' = map
        /\ defaultBrowserSession' =
              IF me.id = DefaultId THEN sessionObj ELSE defaultBrowserSession
        /\ activeSessionId' = setActiveSessionId(me.id, map, activeSessionId)
        /\ task' = [task EXCEPT ![t] = IdleTask]
        /\ last' = [Step("create_ok", me.id) EXCEPT
                       !.via = me.op, !.ret = sessionObj, !.found = browsers[me.id],
                       !.live = isConnected[me.client], !.stale = me.stale,
                       !.attempts = me.attempts]
        /\ UNCHANGED <<connVars, callVars, bulkVars>>

\* A createTzafonWrightClient whose catch rethrows without closing the client.
CreateFail_NoClose(t) ==
    LET me == task[t]
    IN  /\ me.pc = "connecting"
        /\ connectPromise[me.client] = "rejected"
        /\ task' = [task EXCEPT ![t].pc = "create_failed"]
        /\ last' = [Step("create_fail", me.id) EXCEPT
                       !.via = me.op, !.attempts = me.attempts]
        /\ UNCHANGED <<connVars, callVars, bulkVars, regVars>>

\* connect() rejected: createTzafonWrightClient's catch runs `await client.close()`.
CreateFail(t) ==
    LET me == task[t]
    IN  /\ me.pc = "connecting"
        /\ connectPromise[me.client] = "rejected"
        /\ close(me.client)
        /\ task' = [task EXCEPT ![t].pc = "create_failed"]
        /\ last' = [Step("create_fail", me.id) EXCEPT
                       !.via = me.op, !.attempts = me.attempts]
        /\ UNCHANGED <<callVars, bulkVars, regVars>>

\* An ensureDefaultSessionInternal that gives up after the first failure.
RetryAgain_Never(me) == FALSE

\* How often ensureDefaultSessionInternal calls createNewBrowserSession: the try, and
\* once more in its catch.
RetryAgain(me) == me.op # "createNamed" /\ me.attempts < 2

\* The error propagates: createNewBrowserSession rethrows; ensureDefaultSessionInternal
\* catches the first failure and calls createNewBrowserSession again, and throws after
\* the second; getSession turns that throw into null.
CreateRethrow(t) ==
    LET me == task[t]
    IN  /\ me.pc = "create_failed"
        /\ IF RetryAgain(me)
              THEN /\ createTzafonWrightClient(t, me.op, me.id, me.attempts + 1, me.stale)
                   /\ last' = [Step("create_retry", me.id) EXCEPT
                                  !.via = me.op, !.attempts = me.attempts + 1]
              ELSE /\ task' = [task EXCEPT ![t] = IdleTask]
                   /\ last' = [Step("create_throw", me.id) EXCEPT
                                  !.via = me.op, !.threw = me.op # "getSession",
                                  !.stale = me.stale, !.attempts = me.attempts]
                   /\ UNCHANGED connVars
        /\ UNCHANGED <<callVars, bulkVars, regVars>>

\* ensureDefaultSessionInternal(config) up to its first await, entered directly
\* (via = "ensureDefault") or from getSession(defaultSessionId, config, true).
ensureDefaultSessionInternal(t, via) ==
    LET slot == defaultBrowserSession
        stale == IF slot # NoSession /\ ~isConnected[slot.client]
                    THEN slot.client ELSE NoClient
    IN  /\ Free(t)
        /\ IF slot = NoSession
              THEN /\ createTzafonWrightClient(t, via, DefaultId, 1, stale)
                   /\ last' = [Step("ensure_create", DefaultId) EXCEPT
                                  !.via = via, !.cim = TRUE, !.attempts = 1]
                   /\ UNCHANGED regVars
              ELSE IF IsStale(slot)
              THEN \* await closeBrowserGracefully(slot): no client, nothing to close
                   /\ task' = [task EXCEPT ![t] =
                                 [IdleTask EXCEPT !.pc = "ensure_closing", !.op = via,
                                                  !.id = DefaultId, !.stale = stale]]
                   /\ last' = [Step("ensure_stale", DefaultId) EXCEPT
                                  !.via = via, !.cim = TRUE, !.found = slot]
                   /\ UNCHANGED <<connVars, regVars>>
              ELSE /\ activeSessionId' = setActiveSessionId(DefaultId, browsers, activeSessionId)
                   /\ last' = [Step("ensure_ok", DefaultId) EXCEPT
                                  !.via = via, !.cim = TRUE, !.ret = slot, !.found = slot,
                                  !.live = isConnected[slot.client], !.stale = stale]
                   /\ UNCHANGED <<connVars, browsers, defaultBrowserSession, task>>
        /\ UNCHANGED <<callVars, bulkVars>>

EnsureDefault(t) == ensureDefaultSessionInternal(t, "ensureDefault")

\* A getSession that recreates a missing session instead of returning null.
LookupMiss_AutoCreate(t, id, cim) ==
    /\ createTzafonWrightClient(t, "createNamed", id, 1, NoClient)
    /\ last' = [Step("get", id) EXCEPT !.via = "getSession", !.cim = cim]
    /\ UNCHANGED regVars

\* getSession: if (!sessionObj) return null
LookupMiss(t, id, cim) ==
    /\ last' = [Step("get", id) EXCEPT !.via = "getSession", !.cim = cim]
    /\ UNCHANGED <<connVars, regVars, task>>

\* getSession(id, config, createIfMissing) when it does not delegate: the lookup.
Lookup(t, id, cim) ==
    LET sessionObj == browsers[id]
    IN  /\ Free(t)
        /\ IF sessionObj = NoSession
              THEN LookupMiss(t, id, cim)
              ELSE IF IsStale(sessionObj)
              THEN \* await closeBrowserGracefully(sessionObj): no client, nothing to close
                   /\ task' = [task EXCEPT ![t] =
                                 [IdleTask EXCEPT !.pc = "get_closing", !.op = "getSession",
                                                  !.id = id, !.found = sessionObj]]
                   /\ last' = [Step("get_stale", id) EXCEPT
                                  !.via = "getSession", !.cim = cim, !.found = sessionObj]
                   /\ UNCHANGED <<connVars, regVars>>
              ELSE /\ activeSessionId' = setActiveSessionId(id, browsers, activeSessionId)
                   /\ last' = [Step("get", id) EXCEPT
                                  !.via = "getSession", !.cim = cim, !.ret = sessionObj,
                                  !.found = sessionObj,
                                  !.live = isConnected[sessionObj.client]]
                   /\ UNCHANGED <<connVars, browsers, defaultBrowserSession, task>>
        /\ UNCHANGED <<callVars, bulkVars>>

getSession(t, id, cim) ==
    IF id = DefaultId /\ cim THEN ensureDefaultSessionInternal(t, "getSession") ELSE Lookup(t, id, cim)

\* cleanupSession(id) after the close: browsers.delete(id); clear the default slot if
\* id is the default id; reset the active id if id was active.
Removed(id, map) == [map EXCEPT ![id] = NoSession]

\* A cleanupSession that leaves the default slot alone.
ClearedSlot_Kept(id, slot) == slot

ClearedSlot(id, slot) == IF id = DefaultId /\ slot # NoSession THEN NoSession ELSE slot

\* A removal that leaves the active id pointing at the removed session.
ResetActive_Never(id, map, active) == active

ResetActive(id, map, active) ==
    IF active = id THEN setActiveSessionId(DefaultId, map, active) ELSE active

\* cleanupSession(id) up to `await closeBrowserGracefully(session, id)`, which calls
\* session.client.close(); with no entry under id it runs to its end at once.
cleanupSession(t, id) ==
    LET session == browsers[id]
    IN  /\ Free(t)
        /\ IF session # NoSession
              THEN /\ IF session.client # NoClient
                         THEN close(session.client)
                         ELSE UNCHANGED connVars
                   /\ task' = [task EXCEPT ![t] =
                                 [IdleTask EXCEPT !.pc = "cleanup_closing",
                                                  !.op = "cleanupSession", !.id = id,
                                                  !.found = session]]
                   /\ last' = [Step("cleanup_start", id) EXCEPT
                                  !.via = "cleanupSession", !.found = session]
                   /\ UNCHANGED regVars
              ELSE /\ browsers' = Removed(id, browsers)
                   /\ defaultBrowserSession' = ClearedSlot(id, defaultBrowserSession)
                   /\ activeSessionId' =
                         ResetActive(id, Removed(id, browsers), activeSessionId)
                   /\ last' = [Step("cleanup_done", id) EXCEPT
                                  !.via = "cleanupSession",
                                  !.wasActive = (activeSessionId = id)]
                   /\ UNCHANGED <<connVars, task>>
        /\ UNCHANGED <<callVars, bulkVars>>

\* The continuation after `await closeBrowserGracefully(...)` in its three callers:
\* cleanupSession, getSession's stale branch, ensureDefaultSessionInternal's stale branch.
AfterClose(t) ==
    LET me == task[t]
    IN  /\ me.pc \in {"cleanup_closing", "get_closing", "ensure_closing"}
        /\ CASE me.pc = "cleanup_closing" ->
                   /\ browsers' = Removed(me.id, browsers)
                   /\ defaultBrowserSession' = ClearedSlot(me.id, defaultBrowserSession)
                   /\ activeSessionId' =
                         ResetActive(me.id, Removed(me.id, browsers), activeSessionId)
                   /\ task' = [task EXCEPT ![t] = IdleTask]
                   /\ last' = [Step("cleanup_done", me.id) EXCEPT
                                  !.via = "cleanupSession", !.found = me.found,
                                  !.wasActive = (activeSessionId = me.id)]
                   /\ UNCHANGED connVars
             [] me.pc = "get_closing" ->
                   /\ browsers' = Removed(me.id, browsers)
                   /\ activeSessionId' =
                         ResetActive(me.id, Removed(me.id, browsers), activeSessionId)
                   /\ task' = [task EXCEPT ![t] = IdleTask]
                   /\ last' = [Step("get_evicted", me.id) EXCEPT
                                  !.via = "getSession", !.found = me.found,
                                  !.wasActive = (activeSessionId = me.id)]
                   /\ UNCHANGED <<connVars, defaultBrowserSession>>
             [] me.pc = "ensure_closing" ->
                   /\ defaultBrowserSession' = NoSession
                   /\ browsers' = Removed(DefaultId, browsers)
                   /\ createTzafonWrightClient(t, me.op, DefaultId, 1, me.stale)
                   /\ last' = [Step("ensure_create", DefaultId) EXCEPT
                                  !.via = me.op, !.cim = TRUE, !.attempts = 1]
                   /\ UNCHANGED activeSessionId
        /\ UNCHANGED <<callVars, bulkVars>>

\* The clients of the entries of the map.
Registered(map) == {map[i].client : i \in {j \in Ids : Has(map, j)}}

\* A closeAllSessions that closes the named sessions and leaves the default one.
closeAllSessions_SkipDefault(t, thrown) ==
    LET S == {browsers[i].client : i \in {j \in NamedIds : Has(browsers, j)}}
    IN  /\ Free(t)
        /\ thrown \subseteq {c \in S : ws[c] \in {"connecting", "open"}}
        /\ closeEach(S, thrown)
        /\ task' = [task EXCEPT ![t] =
                      [IdleTask EXCEPT !.pc = "closeall_closing", !.op = "closeAllSessions"]]
        /\ last' = [Step("closeall_start", NoId) EXCEPT
                       !.via = "closeAllSessions", !.thrown = thrown]
        /\ UNCHANGED <<callVars, bulkVars, regVars>>

\* closeAllSessions() up to `await Promise.all(closePromises)`: closeBrowserGracefully
\* has called close() on the client of every entry of the map, and caught what threw.
closeAllSessions(t, thrown) ==
    /\ Free(t)
    /\ thrown \subseteq {c \in Registered(browsers) : ws[c] \in {"connecting", "open"}}
    /\ closeEach(Registered(browsers), thrown)
    /\ task' = [task EXCEPT ![t] =
                  [IdleTask EXCEPT !.pc = "closeall_closing", !.op = "closeAllSessions"]]
    /\ last' = [Step("closeall_start", NoId) EXCEPT
                   !.via = "closeAllSessions", !.thrown = thrown]
    /\ UNCHANGED <<callVars, bulkVars, regVars>>

\* closeAllSessions() after the await: browsers.clear(); defaultBrowserSession = null;
\* setActiveSessionId(defaultSessionId)
CloseAllDone(t) ==
    LET map == [i \in Ids |-> NoSession]
    IN  /\ task[t].pc = "closeall_closing"
        /\ browsers' = map
        /\ defaultBrowserSession' = NoSession
        /\ activeSessionId' = setActiveSessionId(DefaultId, map, activeSessionId)
        /\ task' = [task EXCEPT ![t] = IdleTask]
        /\ last' = [Step("closeall_done", NoId) EXCEPT
                       !.via = "closeAllSessions",
                       !.dropped = Registered(browsers) \cup
                                   {defaultBrowserSession.client : x \in
                                       IF defaultBrowserSession = NoSession THEN {} ELSE {1}}]
        /\ UNCHANGED <<connVars, callVars, bulkVars>>

\* setActiveSessionId(id), called from outside the module
CallSetActive(id) ==
    /\ activeSessionId' = setActiveSessionId(id, browsers, activeSessionId)
    /\ last' = [Step("setActive", id) EXCEPT !.via = "setActiveSessionId"]
    /\ UNCHANGED <<connVars, callVars, bulkVars, browsers, defaultBrowserSession, task>>

Next ==
    \/ \E t \in Tasks, id \in Ids : createNewBrowserSession(t, id)
    \/ \E t \in Tasks : CreateOk(t)
    \/ \E t \in Tasks : CreateFail(t)
    \/ \E t \in Tasks : CreateRethrow(t)
    \/ \E t \in Tasks : EnsureDefault(t)
    \/ \E t \in Tasks, id \in Ids, cim \in BOOLEAN : getSession(t, id, cim)
    \/ \E t \in Tasks, id \in Ids : cleanupSession(t, id)
    \/ \E t \in Tasks : AfterClose(t)
    \/ \E t \in Tasks : \E thrown \in SUBSET Registered(browsers) :
          closeAllSessions(t, thrown)
    \/ \E t \in Tasks : CloseAllDone(t)
    \/ \E id \in Ids : CallSetActive(id)
    \/ \E c \in Conns : WsOpen(c)
    \/ \E c \in Conns : WsError(c)
    \/ \E c \in Conns : WsClose(c)

Spec == Init /\ [][Next]_vars

\* No session manager call is suspended at an await.
Quiescent == \A t \in Tasks : task[t].pc = "idle"

\* ---------------------------------------------------------------- C3
EnsureReturned == last.op \in {"ensure_ok", "create_ok"} /\ last.id = DefaultId

\* C3: default session self-healing. When ensureDefaultSessionInternal is entered
\* while the default session's client is not connected, the session it returns
\* holds another, connected client, and the stale client has been closed and is
\* no longer the registered one (stated for a call that runs with no other
\* session manager call in progress).
C3_DefaultSelfHealing ==
    EnsureReturned /\ last.stale # NoClient /\ Quiescent
        => /\ last.ret.client # last.stale
           /\ last.live
           /\ closeInvoked[last.stale]
           /\ browsers[DefaultId].client # last.stale

\* ---------------------------------------------------------------- C4
\* C4: ensureDefaultSessionInternal retries creation exactly once. A chain makes at
\* most two createNewBrowserSession calls; a retry is the second call; the chain
\* returns the session of the first or second call that succeeds, and gives up
\* (throws, or returns null through getSession) only after two failed calls.
C4_RetryOnce ==
    /\ \A t \in Tasks : task[t].attempts <= 2
    /\ last.op = "create_retry" => last.id = DefaultId /\ last.attempts = 2
    /\ last.op = "create_throw" /\ last.id = DefaultId
          => /\ last.attempts = 2
             /\ last.threw = (last.via = "ensureDefault")
    /\ last.op = "create_ok" /\ last.id = DefaultId
          => /\ last.attempts \in {1, 2}
             /\ last.ret = browsers[DefaultId]
             /\ last.ret # NoSession

C4_Witness ==
    /\ last.op = "create_throw" /\ last.via = "ensureDefault"
    /\ last.threw /\ last.attempts = 2
    /\ closeInvoked[1] /\ closeInvoked[2]

\* ---------------------------------------------------------------- C5
\* C5: named-session staleness eviction. A getSession for a non-default id whose
\* registry entry holds a client that is not connected ends with the entry
\* removed, the active id not left on that id, and null returned (stated for a
\* call that runs with no other session manager call in progress).
C5_NamedStaleEvicted ==
    last.op \in {"get", "get_evicted"} /\ last.id # DefaultId
    /\ last.found # NoSession /\ ~last.live /\ Quiescent
        => /\ last.ret = NoSession
           /\ ~Has(browsers, last.id)
           /\ activeSessionId # last.id

\* ---------------------------------------------------------------- C6
\* A step of getSession(id, config, createIfMissing) that does not delegate to
\* ensureDefaultSessionInternal.
IsLookupStep(step) ==
    /\ step.via = "getSession"
    /\ step.op \in {"get", "get_stale", "get_evicted"}
    /\ step.id # DefaultId \/ ~step.cim

\* C6: getSession never auto-creates on a lookup. For a non-default id, or the
\* default id with createIfMissing = false, it allocates no client and adds no
\* registry entry; it returns null when the id is absent; and when it returns a
\* session, that is the registered one and its id is the active id.
C6_GetNeverCreates ==
    [][IsLookupStep(last')
          => /\ nextConn' = nextConn
             /\ ws' = ws
             /\ \A i \in Ids : ~Has(browsers, i) => ~Has(browsers', i)
             /\ ~Has(browsers, last'.id) => last'.ret = NoSession
             /\ last'.ret # NoSession
                   => /\ last'.ret = browsers[last'.id]
                      /\ activeSessionId' = last'.id]_vars

C6_Witness ==
    /\ IsLookupStep(last) /\ last.op = "get"
    /\ last.id = DefaultId /\ ~last.cim
    /\ ~Has(browsers, DefaultId) /\ last.ret = NoSession
    /\ nextConn = 0

\* ---------------------------------------------------------------- C7
\* C7: createNamed never overwrites an id's client without closing it. When
\* createNewBrowserSession stores a session under an id that already has one,
\* close() has been called on the client it replaces.
C7_NoOverwriteWithoutClose ==
    last.op = "create_ok" /\ last.via = "createNamed" /\ last.found # NoSession
        => closeInvoked[last.found.client]

\* ---------------------------------------------------------------- C8
\* C8: registry eviction. When cleanupSession(id) completes, the entry under id is
\* gone and the client of the entry it found has been closed; if id was active the
\* active id is the default id; if id is the default id the default slot is empty.
\* And an ensureDefaultSessionInternal entered with the default slot empty opens a
\* new client instead of returning a session.
C8_RemoveEvicts ==
    [][/\ last'.op = "cleanup_done"
          => /\ ~Has(browsers', last'.id)
             /\ last'.found # NoSession => closeInvoked'[last'.found.client]
             /\ activeSessionId = last'.id => activeSessionId' = DefaultId
             /\ activeSessionId # last'.id => activeSessionId' = activeSessionId
             /\ last'.id = DefaultId => defaultBrowserSession' = NoSession
             /\ \A i \in Ids \ {last'.id} : browsers'[i] = browsers[i]
       /\ last'.op \in {"ensure_ok", "ensure_stale", "ensure_create"}
          /\ defaultBrowserSession = NoSession
          => /\ last'.op = "ensure_create"
             /\ last'.ret = NoSession
             /\ nextConn' = nextConn + 1
             /\ ws'[nextConn'] = "connecting"]_vars

C8_Witness ==
    /\ last.op = "cleanup_done" /\ last.id = DefaultId
    /\ last.found # NoSession /\ closeInvoked[last.found.client]
    /\ last.wasActive
    /\ defaultBrowserSession = NoSession /\ ~Has(browsers, DefaultId)

\* ---------------------------------------------------------------- C9
\* C9: setActiveSessionId(id) sets the active id to id when id is in the registry
\* or is the default id (also while no default session exists); for any other id
\* it raises nothing and leaves the active id unchanged; it never touches the
\* registry.
C9_SetActive ==
    [][last'.op = "setActive"
          => /\ Has(browsers, last'.id) \/ last'.id = DefaultId
                   => activeSessionId' = last'.id
             /\ ~(Has(browsers, last'.id) \/ last'.id = DefaultId)
                   => activeSessionId' = activeSessionId
             /\ ~last'.threw
             /\ browsers' = browsers
             /\ defaultBrowserSession' = defaultBrowserSession]_vars

C9_Witness ==
    /\ last.op = "setActive" /\ last.id \in NamedIds
    /\ ~Has(browsers, last.id)
    /\ activeSessionId = DefaultId
    /\ ~last.threw

\* ---------------------------------------------------------------- C10
\* C10: the active id is the default id or the id of an entry of the registry, in
\* every reachable state.
C10_ActiveValid == activeSessionId = DefaultId \/ Has(browsers, activeSessionId)

C10_Witness ==
    /\ last.op = "cleanup_done" /\ last.id \in NamedIds
    /\ last.found # NoSession /\ last.wasActive
    /\ ~Has(browsers, last.id)
    /\ activeSessionId = DefaultId

\* ---------------------------------------------------------------- C11
\* C11: closeAllSessions. It calls close() on the client of every entry of the
\* registry, also when the close of another entry throws, and every close that did
\* not throw leaves its socket no longer open; when it completes the registry holds
\* no entry, the default slot is empty and the active id is the default id.
C11_CloseAllClears ==
    /\ last.op = "closeall_start"
          => \A c \in Registered(browsers) :
                /\ closeInvoked[c]
                /\ c \notin last.thrown => ws[c] \notin {"connecting", "open"} /\ ~isConnected[c]
    /\ last.op = "closeall_done"
          => /\ \A i \in Ids : ~Has(browsers, i)
             /\ defaultBrowserSession = NoSession
             /\ activeSessionId = DefaultId

\* closeAllSessions ran over two entries; the close of the first client threw, the
\* second client was closed all the same, and both entries are gone.
C11_Witness ==
    /\ last.op = "closeall_done"
    /\ closeInvoked[1] /\ closeInvoked[2] /\ ws[1] = "open" /\ ws[2] \in {"closing", "closed"}
    /\ \A i \in Ids : ~Has(browsers, i)
    /\ activeSessionId = DefaultId

\* ====================================================== bulk provisioner
\* TzafonWrightClient.createBulkSessions, called by the bulk-create tool
\* (createBulkSessionsTool.handle). Timers are followed as events: a timer that is
\* armed fires at some later point. Socket errors after the handshake and closes by
\* the peer are followed in SpecConn, not here.

\* batchSize = Math.min(5, count)
DefaultBatchSize == 5

defaultBatchSize(count) == IF DefaultBatchSize < count THEN DefaultBatchSize ELSE count

\* const { batchSize = Math.min(5, count) } = options
batchSizeOf(option, count) ==
    IF option = NoBatchSize THEN defaultBatchSize(count) ELSE option

\* Math.ceil(count / batchSize)
totalBatches(count, batchSize) == (count + batchSize - 1) \div batchSize

startIndex(batchIndex, batchSize) == batchIndex * batchSize

\* A batch that always spans batchSize indices.
endIndex_Unclamped(batchIndex, batchSize, count) ==
    startIndex(batchIndex, batchSize) + batchSize

\* Math.min(startIndex + batchSize, count)
endIndex(batchIndex, batchSize, count) ==
    IF startIndex(batchIndex, batchSize) + batchSize < count
       THEN startIndex(batchIndex, batchSize) + batchSize
       ELSE count

batchCount(batchIndex, batchSize, count) ==
    endIndex(batchIndex, batchSize, count) - startIndex(batchIndex, batchSize)

\* A provisioner that names the sessions by their 0-based index.
sessionName_ZeroBased(namePrefix, globalIndex) == <<namePrefix, globalIndex>>

\* `${namePrefix}-${globalIndex + 1}`
sessionName(namePrefix, globalIndex) == <<namePrefix, globalIndex + 1>>

\* `${sessionName}-${Date.now()}-${Math.random()...}`
Stamps == {"t-r"}
sessionId(name, stamp) == Append(name, stamp)

\* What the caller passes as namePrefix, and the messages of the socket's errors.
NamePrefixes == {"session", "scraper"}
ErrorMessages == {"", "ECONNREFUSED"}

\* The async function of one attempt, suspended at `await Promise.race([...])`.
Attempt(c, name, id) ==
    [client |-> c, name |-> name, sessionId |-> id, outcome |-> "racing", error |-> ""]

\* Array.from({ length: batchCount }, async ...): the attempts of batch batchIndex,
\* the first of which gets the client after `first`.
batchPromises(b, batchIndex, first, stamp) ==
    [k \in 1..batchCount(batchIndex, b.batchSize, b.count) |->
        LET globalIndex == startIndex(batchIndex, b.batchSize) + k - 1
        IN  Attempt(first + k,
                    sessionName(b.namePrefix, globalIndex),
                    sessionId(sessionName(b.namePrefix, globalIndex), stamp))]

\* new TzafonWrightClient(proxyUrl); client.connect() for n clients in one run.
connectEach(n) ==
    /\ nextConn + n <= MaxCount
    /\ nextConn' = nextConn + n
    /\ ws' = [c \in Conns |->
                IF c \in (nextConn + 1)..(nextConn + n) THEN "connecting" ELSE ws[c]]
    /\ connectPromise' = [c \in Conns |->
                IF c \in (nextConn + 1)..(nextConn + n) THEN "pending"
                                                        ELSE connectPromise[c]]
    /\ UNCHANGED <<isConnected, closeInvoked>>

\* A race whose later settlement replaces the earlier one.
raceSettle_LastWins(a, outcome, error) ==
    [a EXCEPT !.outcome = outcome, !.error = error]

\* Promise.race([client.connect(), timer]): the first settlement decides; the async
\* function returns { success: true, ... } or, from its catch, { success: false, error }.
raceSettle(a, outcome, error) ==
    IF a.outcome = "racing" THEN [a EXCEPT !.outcome = outcome, !.error = error] ELSE a

\* The settlement reaches the attempts whose client is in S.
settle(b, S, outcome, error) ==
    [b EXCEPT !.attempts =
        [k \in 1..Len(b.attempts) |->
            IF b.attempts[k].client \in S
               THEN raceSettle(b.attempts[k], outcome, error)
               ELSE b.attempts[k]]]

\* A loop that waits after every batch.
IsLastBatch_Never(batchIndex, total) == FALSE

\* if (batchIndex < totalBatches - 1) await setTimeout(batchDelay)
IsLastBatch(batchIndex, total) == ~(batchIndex < total - 1)

\* A count of the batch that leaves the attempts without an error message out.
Failures_Named(values) ==
    SelectSeq(values, LAMBDA a : a.outcome # "ok" /\ a.error # "")

\* The values of the batch that are not { success: true, client, sessionId, name }.
Failures(values) == SelectSeq(values, LAMBDA a : a.outcome # "ok")

\* A record of failures that keeps the message as it came.
failedEntry_Raw(a) == [error |-> a.error, name |-> a.name]

\* { error: result.value.error || "Unknown error", name: result.value.name || ... }
failedEntry(a) ==
    [error |-> IF a.error = "" THEN "Unknown error" ELSE a.error, name |-> a.name]

\* After `await Promise.allSettled(batchPromises)`: sort the values into
\* results.successful and results.failed, push the batch record, then wait or return.
BatchComplete(b) ==
    LET values == SubSeq(b.attempts, startIndex(b.batchIndex, b.batchSize) + 1,
                         endIndex(b.batchIndex, b.batchSize, b.count))
        ok == SelectSeq(values, LAMBDA a : a.outcome = "ok")
        ko == Failures(values)
    IN  [b EXCEPT
           !.results =
              [successful |-> b.results.successful \o
                  [k \in 1..Len(ok) |-> [client |-> ok[k].client,
                                         sessionId |-> ok[k].sessionId,
                                         name |-> ok[k].name]],
               failed |-> b.results.failed \o [k \in 1..Len(ko) |-> failedEntry(ko[k])],
               batchResults |-> Append(b.results.batchResults,
                                       [batchNumber |-> b.batchIndex + 1,
                                        successful |-> Len(ok),
                                        failed |-> Len(ko)])],
           !.pc = IF IsLastBatch(b.batchIndex, b.totalBatches) THEN "done" ELSE "delay"]

\* Promise.allSettled resolves once no attempt of the batch is still racing.
allSettled(b) ==
    IF b.pc = "batch" /\ \A k \in 1..Len(b.attempts) : b.attempts[k].outcome # "racing"
       THEN BatchComplete(b)
       ELSE b

\* A tool that forgets to store the sessions.
storeSession_Dropped(map, session) == map

\* storeSession(session): store.set(session.id, session)
storeSession(map, session) == {x \in map : x.id # session.id} \cup {session}

\* The tool's loop over bulkResults.successful: storeSession({ id, client, metadata }).
\* Map.set does not throw, so the catch that closes the client is never entered.
RECURSIVE handleResults(_, _)
handleResults(map, successful) ==
    IF successful = <<>>
       THEN map
       ELSE handleResults(
                storeSession(map, [id |-> Head(successful).sessionId,
                                   client |-> Head(successful).client,
                                   name |-> Head(successful).name]),
                Tail(successful))

\* The microtasks that follow a settlement: allSettled's continuation and, when
\* createBulkSessions has returned, the tool's continuation.
Continue(b) ==
    /\ bulk' = allSettled(b)
    /\ store' = IF allSettled(b).pc = "done" /\ bulk.pc # "done"
                   THEN handleResults(store, allSettled(b).results.successful)
                   ELSE store

\* createBulkSessionsTool.handle: createBulkSessions(proxyUrl, count, namePrefix,
\* { batchSize, batchDelay, connectionTimeout }) up to the first allSettled.
handle(count, namePrefix, option, stamp) ==
    LET b == [IdleBulk EXCEPT !.pc = "batch", !.count = count,
                              !.namePrefix = namePrefix,
                              !.batchSize = batchSizeOf(option, count),
                              !.totalBatches =
                                  totalBatches(count, batchSizeOf(option, count))]
    IN  /\ bulk.pc = "idle"
        /\ nextConn + count <= MaxCount
        /\ connectEach(batchCount(0, b.batchSize, count))
        /\ bulk' = [b EXCEPT !.attempts = batchPromises(b, 0, nextConn, stamp)]
        /\ last' = Step("bulk_start", NoId)
        /\ UNCHANGED <<callVars, regVars, task, store, plan, proc, codec, currentSessionId>>

\* ws.on("open") on a client of the provisioner: connect() resolves.
BulkOpen(c) ==
    /\ bulk.pc # "idle"
    /\ OnOpen(c)
    /\ Continue(settle(bulk, {c}, "ok", ""))
    /\ last' = Step("bulk_open", NoId)
    /\ UNCHANGED <<callVars, regVars, task, plan, proc, codec, currentSessionId>>

\* ws.on("error") during the handshake: connect() rejects with the error.
BulkError(c, message) ==
    /\ bulk.pc # "idle"
    /\ connectPromise[c] = "pending"
    /\ OnError(c)
    /\ Continue(settle(bulk, {c}, "error", message))
    /\ last' = Step("bulk_error", NoId)
    /\ UNCHANGED <<callVars, regVars, task, plan, proc, codec, currentSessionId>>

\* The connectionTimeout timers of the batch fire (they were armed in one run with
\* one duration, so they expire together): reject(new Error("Connection timeout")).
ConnectionTimeout ==
    /\ bulk.pc = "batch"
    /\ Continue(settle(bulk, {bulk.attempts[k].client : k \in 1..Len(bulk.attempts)},
                       "timeout", "Connection timeout"))
    /\ last' = Step("bulk_timeout", NoId)
    /\ UNCHANGED <<connVars, callVars, regVars, task, plan, proc, codec, currentSessionId>>

\* The batchDelay timer fires: batchIndex++, the loop test, the next batch.
DelayElapsed(stamp) ==
    LET b == [bulk EXCEPT !.batchIndex = @ + 1, !.delays = @ + 1, !.pc = "batch"]
    IN  /\ bulk.pc = "delay"
        /\ IF b.batchIndex < b.totalBatches
              THEN /\ connectEach(batchCount(b.batchIndex, b.batchSize, b.count))
                   /\ bulk' = [b EXCEPT !.attempts =
                                 @ \o batchPromises(b, b.batchIndex, nextConn, stamp)]
                   /\ UNCHANGED store
              ELSE /\ bulk' = [b EXCEPT !.pc = "done"]
                   /\ store' = handleResults(store, b.results.successful)
                   /\ UNCHANGED connVars
        /\ last' = Step("bulk_delay", NoId)
        /\ UNCHANGED <<callVars, regVars, task, plan, proc, codec, currentSessionId>>

NextBulk ==
    \/ \E count \in 1..MaxCount, namePrefix \in NamePrefixes,
          option \in {NoBatchSize} \cup 1..MaxCount, stamp \in Stamps :
             handle(count, namePrefix, option, stamp)
    \/ \E c \in Conns : BulkOpen(c)
    \/ \E c \in Conns, message \in ErrorMessages : BulkError(c, message)
    \/ ConnectionTimeout
    \/ \E stamp \in Stamps : DelayElapsed(stamp)

SpecBulk == Init /\ [][NextBulk]_vars

\* ------------------------------------------------------------ the batch loop
\* createBulkSessions(_, count, _, { batchSize: option }) down to the loop.
Plan(count, option) ==
    /\ plan = NoPlan
    /\ plan' = [NoPlan EXCEPT !.count = count, !.option = option,
                              !.batchSize = batchSizeOf(option, count),
                              !.totalBatches =
                                  totalBatches(count, batchSizeOf(option, count))]
    /\ UNCHANGED <<connVars, callVars, regVars, task, last, store, bulk, proc, codec, currentSessionId>>

\* One turn of `for (batchIndex = 0; batchIndex < totalBatches; batchIndex++)`:
\* startIndex, endIndex, batchCount, and batchCount attempts are made.
PlanBatch ==
    /\ plan # NoPlan
    /\ plan.batchIndex < plan.totalBatches
    /\ plan' = [plan EXCEPT
                  !.sizes = Append(@, batchCount(plan.batchIndex, plan.batchSize,
                                                 plan.count)),
                  !.batchIndex = @ + 1]
    /\ UNCHANGED <<connVars, callVars, regVars, task, last, store, bulk, proc, codec, currentSessionId>>

NextPlan ==
    \/ \E count \in 1..MaxPlanCount, option \in {NoBatchSize} \cup 1..MaxPlanBatch :
          Plan(count, option)
    \/ PlanBatch

SpecPlan == Init /\ [][NextPlan]_vars

\* ---------------------------------------------------------------- C12
RECURSIVE Sum(_)
Sum(seq) == IF seq = <<>> THEN 0 ELSE Head(seq) + Sum(Tail(seq))

\* The batch loop has run to its end.
PlanDone == plan # NoPlan /\ plan.batchIndex = plan.totalBatches

\* C12: bulk batching bounds. With batchSize unspecified it is min(5, count). The
\* loop forms exactly ceil(count / batchSize) batches (the least n with
\* n * batchSize >= count), every batch has between 1 and batchSize attempts, only
\* the last batch is smaller than batchSize, and the sizes sum to count; count 13
\* with batchSize 5 gives 5, 5, 3.
C12_Batching ==
    /\ plan # NoPlan /\ plan.option = NoBatchSize
          => /\ plan.batchSize <= 5 /\ plan.batchSize <= plan.count
             /\ plan.batchSize = 5 \/ plan.batchSize = plan.count
    /\ PlanDone
          => /\ Len(plan.sizes) * plan.batchSize >= plan.count
             /\ (Len(plan.sizes) - 1) * plan.batchSize < plan.count
             /\ \A k \in 1..Len(plan.sizes) :
                   /\ plan.sizes[k] >= 1 /\ plan.sizes[k] <= plan.batchSize
                   /\ k < Len(plan.sizes) => plan.sizes[k] = plan.batchSize
             /\ Sum(plan.sizes) = plan.count
             /\ plan.count = 13 /\ plan.batchSize = 5 => plan.sizes = <<5, 5, 3>>

C12_Witness ==
    /\ PlanDone /\ plan.count = 13 /\ plan.option = NoBatchSize
    /\ plan.batchSize = 5 /\ plan.sizes = <<5, 5, 3>>

\* ---------------------------------------------------------------- C13
\* The connect operations that have been started and whose socket has neither
\* opened nor failed.
InFlight == {c \in 1..nextConn : ws[c] = "connecting"}

\* C13: peak concurrency. At every instant of a createBulkSessions call at most
\* batchSize connect operations are in flight, also after attempts of an earlier
\* batch ended by the per-connection timeout.
C13_PeakConcurrency ==
    bulk.pc # "idle" => Cardinality(InFlight) <= bulk.batchSize

\* ---------------------------------------------------------------- C14
\* The batch (0-based) that the attempt of global index i - 1 belongs to.
BatchOf(i) == (i - 1) \div bulk.batchSize

\* C14: batches are strictly sequential. Attempts exist only for the batches up to
\* the current one; while an attempt of batch N exists every attempt of the batches
\* before N has settled and N batchDelay timers have fired since the call began,
\* one after each earlier batch; while the provisioner waits for a timer the
\* current batch has settled and is not the last; and the call returns after
\* totalBatches - 1 delays, with none after the last batch.
C14_Sequential ==
    bulk.pc # "idle"
        => /\ Len(bulk.attempts) =
                 endIndex(bulk.batchIndex, bulk.batchSize, bulk.count)
           /\ \A i \in 1..Len(bulk.attempts) :
                 BatchOf(i) < bulk.batchIndex => bulk.attempts[i].outcome # "racing"
           /\ bulk.delays = bulk.batchIndex
           /\ Len(bulk.results.batchResults) =
                 IF bulk.pc = "batch" THEN bulk.batchIndex ELSE bulk.batchIndex + 1
           /\ bulk.pc = "delay" => bulk.batchIndex < bulk.totalBatches - 1
           /\ bulk.pc = "done"
                 => /\ bulk.batchIndex = bulk.totalBatches - 1
                    /\ bulk.delays = bulk.totalBatches - 1

C14_Witness ==
    /\ bulk.pc = "done" /\ bulk.totalBatches = 2 /\ bulk.batchSize = 2
    /\ bulk.delays = 1 /\ Len(bulk.attempts) = 4
    /\ bulk.attempts[1].outcome = "timeout" /\ bulk.attempts[2].outcome = "ok"

\* ---------------------------------------------------------------- C15
\* C15: partial failure accounting. When createBulkSessions returns,
\* |successful| + |failed| = count; the record of batch k has successful + failed
\* equal to the number of attempts of batch k and carries batchNumber k; the
\* per-batch successful counts sum to |successful| and the per-batch failed counts
\* to |failed|.
C15_Accounting ==
    bulk.pc = "done"
        => LET r == bulk.results
               n == Len(r.batchResults)
           IN  /\ Len(r.successful) + Len(r.failed) = bulk.count
               /\ n = bulk.totalBatches
               /\ \A k \in 1..n :
                     /\ r.batchResults[k].batchNumber = k
                     /\ r.batchResults[k].successful + r.batchResults[k].failed
                           = batchCount(k - 1, bulk.batchSize, bulk.count)
               /\ Sum([k \in 1..n |-> r.batchResults[k].successful])
                     = Len(r.successful)
               /\ Sum([k \in 1..n |-> r.batchResults[k].failed]) = Len(r.failed)

\* Four attempts in two batches; one timed out, one failed with an error that has
\* no message, two succeeded.
C15_Witness ==
    /\ bulk.pc = "done" /\ bulk.count = 4 /\ bulk.batchSize = 2
    /\ Len(bulk.results.successful) = 2 /\ Len(bulk.results.failed) = 2
    /\ bulk.results.batchResults[1].failed = 2
    /\ bulk.results.batchResults[2].successful = 2
    /\ bulk.attempts[1].outcome = "timeout"
    /\ bulk.attempts[2].outcome = "error" /\ bulk.attempts[2].error = ""

\* ---------------------------------------------------------------- C16
\* The clients carried in results.successful.
Carried == {bulk.results.successful[k].client : k \in 1..Len(bulk.results.successful)}

\* C16: the provisioner never leaks a connection. Once createBulkSessions has
\* returned and no socket event is outstanding, every client whose socket is open
\* is carried in results.successful or has had close() called on it.
C16_NoLeak ==
    bulk.pc = "done" /\ InFlight = {}
        => \A c \in 1..nextConn :
              ws[c] = "open" => c \in Carried \/ closeInvoked[c]

\* ---------------------------------------------------------------- C17
\* The entries of a sequence, as a set.
Range(seq) == {seq[k] : k \in 1..Len(seq)}

\* C17: failures are collected, never thrown. Whatever subset of the attempts
\* fails, the call is never left waiting on a batch whose attempts have all
\* settled; when it returns, every attempt that failed or timed out has an entry
\* in results.failed with its name and a non-empty error message (the timeout's is
\* "Connection timeout"), and every attempt that succeeded is in
\* results.successful with its own client, whose connect() resolved and on which
\* the provisioner has not called close().
C17_FailuresCollected ==
    /\ bulk.pc = "batch"
          => \E i \in 1..Len(bulk.attempts) : bulk.attempts[i].outcome = "racing"
    /\ bulk.pc = "done"
          => \A i \in 1..Len(bulk.attempts) :
                LET a == bulk.attempts[i]
                IN  /\ a.outcome # "racing"
                    /\ a.outcome # "ok"
                          => \E f \in Range(bulk.results.failed) :
                                /\ f.name = a.name
                                /\ f.error # ""
                                /\ a.error # "" => f.error = a.error
                                /\ a.outcome = "timeout" => f.error = "Connection timeout"
                    /\ a.outcome = "ok"
                          => /\ \E x \in Range(bulk.results.successful) :
                                   /\ x.name = a.name
                                   /\ x.client = a.client
                                   /\ x.sessionId = a.sessionId
                             /\ connectPromise[a.client] = "resolved"
                             /\ ~closeInvoked[a.client]

\* Every attempt of a call of three failed: one by timeout, one with an error
\* message, one with an error that has none.
C17_Witness ==
    /\ bulk.pc = "done" /\ bulk.count = 3
    /\ bulk.results.successful = <<>> /\ Len(bulk.results.failed) = 3
    /\ \E f \in Range(bulk.results.failed) : f.error = "Connection timeout"
    /\ \E f \in Range(bulk.results.failed) : f.error = "ECONNREFUSED"
    /\ \E f \in Range(bulk.results.failed) : f.error = "Unknown error"

\* ---------------------------------------------------------------- C18
\* seq is an initial part of seq2.
IsPrefix(seq, seq2) ==
    Len(seq) <= Len(seq2) /\ SubSeq(seq2, 1, Len(seq)) = seq

\* C18: per-attempt timeout race. The first of connect() and the timer to settle
\* decides an attempt: the timer settles every attempt still racing as a failure
\* with "Connection timeout", an open socket settles its racing attempt as a
\* success, an error as a failure; a settled attempt never changes again, so a
\* socket that opens after the timeout moves nothing: the lists and the batch
\* records only grow at their ends, and no timed-out attempt's client is ever
\* carried in results.successful.
C18_RaceDecides ==
    [][/\ \A i \in 1..Len(bulk.attempts) :
             LET a == bulk.attempts[i]
                 a2 == bulk'.attempts[i]
             IN  /\ a.outcome # "racing" => a2 = a
                 /\ a.outcome = "racing" /\ last'.op = "bulk_timeout"
                       => a2.outcome = "timeout" /\ a2.error = "Connection timeout"
                 /\ a.outcome = "racing" /\ ws[a.client] # ws'[a.client]
                       => a2.outcome = IF ws'[a.client] = "open" THEN "ok" ELSE "error"
                 /\ a2.outcome = "timeout" => a2.client \notin Carried'
       /\ IsPrefix(bulk.results.successful, bulk'.results.successful)
       /\ IsPrefix(bulk.results.failed, bulk'.results.failed)
       /\ IsPrefix(bulk.results.batchResults, bulk'.results.batchResults)
       /\ bulk.pc = "done" => bulk'.results = bulk.results]_vars

\* The timer won the race of the first attempt, its socket opened afterwards, and
\* the attempt is still the one failure of its batch.
C18_Witness ==
    /\ bulk.pc = "done" /\ bulk.count = 2 /\ bulk.batchSize = 2
    /\ bulk.attempts[1].outcome = "timeout" /\ ws[1] = "open"
    /\ bulk.attempts[2].outcome = "ok"
    /\ bulk.results.batchResults = <<[batchNumber |-> 1, successful |-> 1, failed |-> 1]>>
    /\ Carried = {2}
    /\ bulk.results.failed[1].error = "Connection timeout"

\* ---------------------------------------------------------------- C19
\* The names in results.successful followed by those in results.failed.
ResultNames ==
    [k \in 1..Len(bulk.results.successful) |-> bulk.results.successful[k].name]
        \o [k \in 1..Len(bulk.results.failed) |-> bulk.results.failed[k].name]

\* C19: bulk naming. The attempt of global index i - 1 has the name prefix-i, and
\* its session id begins with that name; when the call returns, each of the names
\* prefix-1 .. prefix-count occurs exactly once in the two lists together, and no
\* other name occurs.
C19_Naming ==
    /\ \A i \in 1..Len(bulk.attempts) :
          /\ bulk.attempts[i].name = <<bulk.namePrefix, i>>
          /\ SubSeq(bulk.attempts[i].sessionId, 1, 2) = <<bulk.namePrefix, i>>
    /\ bulk.pc = "done"
          => /\ Len(ResultNames) = bulk.count
             /\ \A i \in 1..bulk.count :
                   Cardinality({k \in 1..Len(ResultNames) :
                                   ResultNames[k] = <<bulk.namePrefix, i>>}) = 1

\* Four attempts named scraper-1 .. scraper-4 in batches of three and one; the
\* second and the fourth failed.
C19_Witness ==
    /\ bulk.pc = "done" /\ bulk.count = 4 /\ bulk.batchSize = 3
    /\ bulk.namePrefix = "scraper"
    /\ ResultNames = << <<"scraper", 1>>, <<"scraper", 3>>,
                        <<"scraper", 2>>, <<"scraper", 4>> >>

\* ---------------------------------------------------------------- C20
\* C20: registration is the tool's work. While createBulkSessions runs no step
\* changes the multi-session store, and no step of the call ever changes the
\* session manager's registry; with the step on which the call returns, the tool
\* stores every entry of results.successful under its session id, with its client.
C20_ToolRegisters ==
    [][/\ bulk'.pc # "done" => store' = store
       /\ browsers' = browsers
       /\ defaultBrowserSession' = defaultBrowserSession
       /\ activeSessionId' = activeSessionId
       /\ bulk'.pc = "done"
             => /\ \A x \in Range(bulk'.results.successful) :
                      \E session \in store' :
                         /\ session.id = x.sessionId
                         /\ session.client = x.client
                         /\ session.name = x.name
                         /\ \A other \in store' : other.id = session.id => other = session
                /\ Cardinality(store') = Len(bulk'.results.successful)]_vars

\* Three attempts in batches of two and one; the second timed out and the other
\* two clients are in the store.
C20_Witness ==
    /\ bulk.pc = "done" /\ bulk.count = 3 /\ bulk.batchSize = 2
    /\ bulk.attempts[2].outcome = "timeout"
    /\ {session.client : session \in store} = {1, 3}
    /\ Carried = {1, 3}


\* ================================================= the store and the process
\* Signals the process handles while the model follows it.
MaxSignals == 2


StoreClients(map) == {s.client : s \in map}

\* tzafonwrightStore.create() up to `await client.connect()` inside
\* createTzafonWrightClient.
StoreCreate(t) ==
    /\ ~proc.exited
    /\ Free(t)
    /\ nextConn < MaxConns
    /\ connect(nextConn + 1)
    /\ task' = [task EXCEPT ![t] =
                  [IdleTask EXCEPT !.pc = "store_connecting", !.op = "storeCreate",
                                   !.client = nextConn + 1, !.attempts = 1]]
    /\ last' = [Step("store_start", NoId) EXCEPT !.via = "storeCreate", !.attempts = 1]
    /\ UNCHANGED <<callVars, regVars, bulkVars>>

\* connect() resolved: create() makes the session { id: randomUUID() + "_tzafonwright",
\* client, metadata }, stores it under its id and returns it.
StoreCreateOk(t) ==
    LET me == task[t]
        session == [id |-> <<"uuid", me.client>>, client |-> me.client, name |-> ""]
    IN  /\ ~proc.exited
        /\ me.pc = "store_connecting"
        /\ connectPromise[me.client] = "resolved"
        /\ store' = storeSession(store, session)
        /\ task' = [task EXCEPT ![t] = IdleTask]
        /\ last' = [Step("store_ok", NoId) EXCEPT
                       !.via = "storeCreate", !.ret = SessionObj(me.client, NoId),
                       !.live = isConnected[me.client], !.attempts = 1]
        /\ UNCHANGED <<connVars, callVars, regVars, bulk, plan, proc, codec, currentSessionId>>

\* connect() rejected: createTzafonWrightClient's catch runs `await client.close()` and
\* rethrows; create() does not catch, and nothing is stored.
StoreCreateFail(t) ==
    LET me == task[t]
    IN  /\ ~proc.exited
        /\ me.pc = "store_connecting"
        /\ connectPromise[me.client] = "rejected"
        /\ close(me.client)
        /\ task' = [task EXCEPT ![t] = IdleTask]
        /\ last' = [Step("store_throw", NoId) EXCEPT
                       !.via = "storeCreate", !.threw = TRUE, !.attempts = 1]
        /\ UNCHANGED <<callVars, regVars, bulkVars>>

\* A removeAll that closes no client before it deletes the entries.
removeAllClients_None(map) == {}

\* removeAll(): list().map((s) => remove(s.id)): remove calls close() on the client
\* of every entry, inside a try/catch.
removeAllClients(map) == StoreClients(map)

\* A remove that deletes the entry only when close() did not throw.
removeAll_KeepFailed(map, thrown) == {s \in map : s.client \in thrown}

\* The store after removeAll(): remove deletes the entry in its `finally`.
removeAll(map, thrown) == {s \in map : FALSE}

\* serverList.closeAll(): the connections it closes, those the session manager tracks.
closeAll(map) == Registered(map)

\* A timer callback that leaves a running cleanup alone.
onTimeout_AfterCleanup(cleanup) == cleanup # "pending"

\* () => process.exit(0): the timer's callback exits whatever the cleanup's state.
onTimeout(cleanup) == TRUE

\* Promise.all of two promises: rejected as soon as one is, resolved when both are.
PromiseAll(a, b) ==
    IF "rejected" \in {a, b} THEN "rejected"
    ELSE IF {a, b} = {"resolved"} THEN "resolved" ELSE "pending"

\* A handleExit without the try/catch: the rejection leaves the handler.
afterCleanup_Uncaught(settled) == settled = "resolved"

\* try { await Promise.all([...]) } catch (error) { console.error(...) }
\* process.exit(0): reached once the await is over, whichever way.
afterCleanup(settled) == settled # "pending"

\* handleExit up to `await Promise.all([...])`, with the microtasks that follow: the
\* timer is armed, removeAll() has closed and deleted every entry of the store and its
\* promise resolves, and serverList.closeAll() has closed and dropped every session
\* of the session manager; its promise is pending. For the clients in `thrown` the
\* socket's close() throws.
handleExit(thrown) ==
    LET map == [i \in Ids |-> NoSession]
        S == removeAllClients(store) \cup closeAll(browsers)
    IN  /\ ~proc.exited
        /\ proc.signals < MaxSignals
        /\ thrown \subseteq {c \in S : ws[c] \in {"connecting", "open"}}
        /\ closeEach(S, thrown)
        /\ store' = removeAll(store, thrown)
        /\ browsers' = map
        /\ defaultBrowserSession' = NoSession
        /\ activeSessionId' = setActiveSessionId(DefaultId, map, activeSessionId)
        /\ proc' = [proc EXCEPT !.signals = @ + 1,
                                !.closeAll = Append(@, "pending"),
                                !.timer = Append(@, "armed"),
                                !.stored = @ \cup StoreClients(store),
                                !.managed = @ \cup Registered(browsers),
                                !.thrown = @ \cup thrown]
        /\ last' = [Step("signal", NoId) EXCEPT !.via = "handleExit", !.thrown = thrown]
        /\ UNCHANGED <<callVars, task, bulk, plan, codec, currentSessionId>>

\* serverList.closeAll() of invocation h settles; Promise.all settles with it, the
\* catch logs a rejection, and process.exit(0) is called.
CleanupSettles(h, outcome) ==
    LET settled == PromiseAll("resolved", outcome)
    IN  /\ ~proc.exited
        /\ h \in 1..proc.signals
        /\ proc.closeAll[h] = "pending"
        /\ proc' = [proc EXCEPT !.closeAll[h] = outcome,
                                !.exited = afterCleanup(settled),
                                !.by = IF afterCleanup(settled) THEN "cleanup" ELSE @,
                                !.logged = @ \/ settled = "rejected"]
        /\ last' = [Step("cleanup_settled", NoId) EXCEPT
                       !.via = "handleExit", !.threw = outcome = "rejected"]
        /\ UNCHANGED <<connVars, callVars, regVars, task, store, bulk, plan, codec, currentSessionId>>

\* The 15 s timer of invocation h fires.
Deadline(h) ==
    /\ ~proc.exited
    /\ h \in 1..proc.signals
    /\ proc.timer[h] = "armed"
    /\ proc' = [proc EXCEPT !.timer[h] = "fired",
                            !.exited = onTimeout(proc.closeAll[h]),
                            !.by = IF onTimeout(proc.closeAll[h]) THEN "deadline" ELSE @]
    /\ last' = [Step("deadline", NoId) EXCEPT !.via = "handleExit"]
    /\ UNCHANGED <<connVars, callVars, regVars, task, store, bulk, plan, codec, currentSessionId>>

\* The session manager's chains and the sockets' events run while the process does.
LiveCreateNamed(t, id) == ~proc.exited /\ createNewBrowserSession(t, id)

LiveEnsureDefault(t) == ~proc.exited /\ EnsureDefault(t)

LiveCreateOk(t) == ~proc.exited /\ CreateOk(t)

LiveCreateFail(t) == ~proc.exited /\ CreateFail(t)

LiveCreateRethrow(t) == ~proc.exited /\ CreateRethrow(t)

LiveWsOpen(c) == ~proc.exited /\ WsOpen(c)

LiveWsError(c) == ~proc.exited /\ WsError(c)

\* The process with its two kinds of sessions, until it exits.
NextExit ==
    \/ \E t \in Tasks : StoreCreate(t)
    \/ \E t \in Tasks : StoreCreateOk(t)
    \/ \E t \in Tasks : StoreCreateFail(t)
    \/ \E t \in Tasks : \E id \in NamedIds : LiveCreateNamed(t, id)
    \/ \E t \in Tasks : LiveEnsureDefault(t)
    \/ \E t \in Tasks : LiveCreateOk(t)
    \/ \E t \in Tasks : LiveCreateFail(t)
    \/ \E t \in Tasks : LiveCreateRethrow(t)
    \/ \E c \in Conns : LiveWsOpen(c)
    \/ \E c \in Conns : LiveWsError(c)
    \/ \E thrown \in SUBSET Conns : handleExit(thrown)
    \/ \E h \in 1..MaxSignals : \E outcome \in {"resolved", "rejected"} :
          CleanupSettles(h, outcome)
    \/ \E h \in 1..MaxSignals : Deadline(h)

SpecExit == Init /\ [][NextExit]_vars

\* The event loop runs every continuation that is ready; sockets' events, signals and
\* new tool calls are the environment's and need not come.
SpecExitFair ==
    /\ SpecExit
    /\ \A t \in Tasks :
          /\ WF_vars(StoreCreateOk(t))
          /\ WF_vars(StoreCreateFail(t))
          /\ WF_vars(LiveCreateOk(t))
          /\ WF_vars(LiveCreateFail(t))
          /\ WF_vars(LiveCreateRethrow(t))
    /\ \A h \in 1..MaxSignals : WF_vars(Deadline(h))

\* ------------------------------------------- creation with a viewport configured
\* tzafonwrightStore.create() when config.viewPort gives browserWidth and
\* browserHeight, up to `await client.connect()`.
ViewportCreate(t) ==
    /\ Free(t)
    /\ nextConn < MaxConns
    /\ connect(nextConn + 1)
    /\ task' = [task EXCEPT ![t] =
                  [IdleTask EXCEPT !.pc = "vp_connecting", !.op = "storeCreate",
                                   !.client = nextConn + 1, !.attempts = 1]]
    /\ last' = [Step("store_start", NoId) EXCEPT !.via = "storeCreate", !.attempts = 1]
    /\ UNCHANGED <<callVars, regVars, bulkVars>>

\* connect() resolved: `await client.setViewportSize({ width, height })`, which is
\* sendAction({ action_type: SET_VIEWPORT_SIZE, width, height }) as call k.
ViewportSet(t, k) ==
    LET me == task[t]
    IN  /\ me.pc = "vp_connecting"
        /\ connectPromise[me.client] = "resolved"
        /\ issue(k, me.client, NoHint)
        /\ task' = [task EXCEPT ![t].pc = "vp_setting", ![t].call = k]
        /\ last' = [Step("viewport_set", NoId) EXCEPT !.via = "storeCreate", !.call = k]
        /\ UNCHANGED <<connVars, regVars, bulkVars>>

\* The awaited call has settled. Resolved, with whatever Result: createTzafonWrightClient
\* returns the client and create() stores and returns the session. Rejected: the catch
\* closes the client and rethrows.
ViewportDone(t) ==
    LET me == task[t]
        session == [id |-> <<"uuid", me.client>>, client |-> me.client, name |-> ""]
    IN  /\ me.pc = "vp_setting"
        /\ calls[me.call].state \in {"resolved", "rejected"}
        /\ IF calls[me.call].state = "resolved"
              THEN /\ store' = storeSession(store, session)
                   /\ last' = [Step("store_ok", NoId) EXCEPT
                                  !.via = "storeCreate", !.call = me.call,
                                  !.ret = SessionObj(me.client, NoId),
                                  !.live = isConnected[me.client], !.attempts = 1]
                   /\ UNCHANGED connVars
              ELSE /\ close(me.client)
                   /\ last' = [Step("store_throw", NoId) EXCEPT
                                  !.via = "storeCreate", !.call = me.call,
                                  !.threw = TRUE, !.attempts = 1]
                   /\ UNCHANGED store
        /\ task' = [task EXCEPT ![t] = IdleTask]
        /\ UNCHANGED <<callVars, regVars, bulk, plan, proc, codec, currentSessionId>>

\* connect() rejected: the catch closes the client and rethrows.
ViewportFail(t) ==
    LET me == task[t]
    IN  /\ me.pc = "vp_connecting"
        /\ connectPromise[me.client] = "rejected"
        /\ close(me.client)
        /\ task' = [task EXCEPT ![t] = IdleTask]
        /\ last' = [Step("store_throw", NoId) EXCEPT
                       !.via = "storeCreate", !.threw = TRUE, !.attempts = 1]
        /\ UNCHANGED <<callVars, regVars, bulkVars>>

NextViewport ==
    \/ \E t \in Tasks : ViewportCreate(t)
    \/ \E t \in Tasks, k \in CallIds : ViewportSet(t, k)
    \/ \E t \in Tasks : ViewportDone(t)
    \/ \E t \in Tasks : ViewportFail(t)
    \/ \E c \in Conns : WsOpen(c)
    \/ \E c \in Conns : WsError(c)
    \/ \E c \in Conns : WsClose(c)
    \/ \E c \in Conns, re \in CallIds, response \in Responses : WsMessage(c, re, response)

SpecViewport == Init /\ [][NextViewport]_vars

\* C21: once a signal has been handled its 15 s timer is armed, and when that timer
\* has fired the process has exited, whatever the state of the cleanup.
C21_DeadlineBounds ==
    /\ Len(proc.timer) = proc.signals
    /\ \A h \in 1..proc.signals : proc.timer[h] = "fired" => proc.exited

\* The timer ended the process while serverList.closeAll() was still pending.
C21_Witness ==
    /\ proc.exited
    /\ proc.by = "deadline"
    /\ \A h \in 1..proc.signals : proc.closeAll[h] = "pending"

C23_ExitWhenSettled ==
    [][proc' # proc =>
         /\ (proc'.exited /\ ~proc.exited) => last'.op \in {"cleanup_settled", "deadline"}
         /\ last'.op = "cleanup_settled" =>
               proc'.exited /\ proc'.by = "cleanup" /\ (last'.threw => proc'.logged)]_vars

\* The cleanup was rejected; the error was logged and the process exited at once.
C23_Witness ==
    /\ proc.exited
    /\ proc.by = "cleanup"
    /\ proc.logged
    /\ last.op = "cleanup_settled"
    /\ last.threw

\* C24: handling a signal starts both cleanups: removeAll has closed the clients of
\* the store and emptied it, also when a close() threw, and serverList.closeAll() is
\* under way; when the latter fails, the store's clients are closed and removed.
C24_BothCleanupsRun ==
    [][proc' # proc =>
         /\ last'.op = "signal" =>
               /\ store' = {}
               /\ \A c \in StoreClients(store) \cup Registered(browsers) : closeInvoked'[c]
               /\ Registered(browsers') = {}
               /\ proc'.closeAll[proc'.signals] = "pending"
         /\ (last'.op = "cleanup_settled" /\ last'.threw) =>
               /\ \A c \in proc.stored : closeInvoked[c]
               /\ StoreClients(store') \cap proc.stored = {}]_vars

\* serverList.closeAll() failed after a signal found sessions in the store and in the
\* session manager and a close() had thrown; the process exited after the cleanup.
C24_Witness ==
    /\ proc.exited
    /\ proc.by = "cleanup"
    /\ proc.logged
    /\ proc.stored # {}
    /\ proc.managed # {}
    /\ proc.thrown \cap proc.stored # {}
    /\ store = {}

\* C25: while a cleanupSession(id) is between its close and its delete, no getSession(id)
\* of another chain returns the session it is removing.
C25_NoDeadEntry ==
    (last.op = "get" /\ last.ret # NoSession) =>
        \A t \in Tasks :
            ~(/\ task[t].pc = "cleanup_closing"
              /\ task[t].id = last.id
              /\ task[t].found = last.ret
              /\ closeInvoked[last.ret.client])

\* C26: when two creations for the default id ran together and both have ended, the
\* client of the entry the second one replaced has been closed.
C26_OnePerId ==
    (/\ Quiescent
     /\ last.op = "create_ok"
     /\ last.id = DefaultId
     /\ last.found # NoSession) => closeInvoked[last.found.client]

\* C27: a chain that is waiting for connect() in createTzafonWrightClient, on behalf of
\* createNewBrowserSession, ensureDefaultSessionInternal or the store's create, ends
\* (or the process does).
C27_CreationEnds ==
    \A t \in Tasks :
        (task[t].pc \in {"connecting", "store_connecting"}) ~>
            (task[t].pc = "idle" \/ proc.exited)

\* The chains suspended in createTzafonWrightClient's `await client.connect()`.
Connecting(c) ==
    \E t \in Tasks : task[t].pc \in {"connecting", "store_connecting"} /\ task[t].client = c

\* C28: a creation returns a session only when its connect() was resolved by the
\* socket's "open"; a client whose connect() was rejected is in no entry of the session
\* manager or the store and, once the catch has run, has been closed; and a
\* creation that ends without a session has thrown (getSession, which reports the
\* failure of the creation it started as null, apart).
C28_ConnectFailed ==
    /\ last.op \in {"create_ok", "store_ok"} =>
          connectPromise[last.ret.client] = "resolved"
    /\ \A c \in 1..nextConn :
          connectPromise[c] = "rejected" =>
              /\ c \notin Registered(browsers) \cup StoreClients(store)
              /\ closeInvoked[c] \/ Connecting(c)
    /\ (last.op \in {"create_throw", "store_throw"} /\ last.via # "getSession") =>
          last.threw /\ last.ret = NoSession

\* A createNewBrowserSession whose connect() failed has thrown; the failed client is
\* closed and nothing was stored.
C28_Witness ==
    /\ last.op = "create_throw"
    /\ last.via = "createNamed"
    /\ last.threw
    /\ \E c \in 1..nextConn : connectPromise[c] = "rejected" /\ closeInvoked[c]
    /\ Registered(browsers) = {}
    /\ store = {}

\* C29: close() can be called on every client, connected or not; after it the client
\* is not connected and its socket neither connecting nor open; a client without a
\* socket still has none; and on a client that was closed before it changes nothing.
C29_CloseIdempotent ==
    [][\A c \in 1..nextConn :
         /\ ENABLED UserClose(c)
         /\ UserClose(c) =>
               /\ ~isConnected'[c]
               /\ ws'[c] \notin {"connecting", "open"}
               /\ ws[c] = "null" => ws'[c] = "null"
               /\ closeInvoked[c] => (ws'[c] = ws[c] /\ isConnected'[c] = isConnected[c])]_vars

\* An open connection has been closed and its socket has finished closing.
C29_Witness ==
    \E c \in 1..nextConn :
        /\ closeInvoked[c]
        /\ connectPromise[c] = "resolved"
        /\ ws[c] = "closed"
        /\ ~isConnected[c]

\* readyState of a client's socket, in the order of its life: no socket, CONNECTING,
\* OPEN, CLOSING, CLOSED.
Rank(state) ==
    CASE state = "null" -> 0
      [] state = "connecting" -> 1
      [] state = "open" -> 2
      [] state = "closing" -> 3
      [] state = "closed" -> 4

Dead(c) == ws[c] = "null" \/ closeInvoked[c] \/ ws[c] \in {"closing", "closed"}

\* C31: a sendAction on a client that was never connected, was closed or lost its
\* socket resolves at once with the "Client not connected" failure; no listener is
\* attached and no frame is sent.
C31_NotConnected ==
    [][\A k \in CallIds :
         (calls[k].state = "unused" /\ calls'[k].state # "unused" /\ Dead(calls'[k].conn)) =>
             /\ calls'[k].state = "resolved"
             /\ calls'[k].kind = "notConnected"
             /\ ~calls'[k].success
             /\ calls'[k].error_message = "Client not connected"
             /\ listeners' = listeners
             /\ outstanding' = outstanding]_vars

\* A call on a client whose socket the peer closed got the not-connected failure.
C31_Witness ==
    \E k \in CallIds :
        /\ calls[k].kind = "notConnected"
        /\ ws[calls[k].conn] = "closed"
        /\ ~closeInvoked[calls[k].conn]
        /\ k \notin listeners[calls[k].conn] \cup outstanding[calls[k].conn]

\* C32: a call whose handler got a frame that does not parse is rejected with the
\* decode error; one that got a parsed response is resolved with its success (false
\* when absent) and error_message, also when success is false; in both cases its
\* listener is off.
C32_DecodeError ==
    \A k \in CallIds :
        calls[k].frame # NoFrame =>
            /\ k \notin listeners[calls[k].conn]
            /\ calls[k].frame.kind \in {"garbage", "null"} =>
                  calls[k].state = "rejected" /\ calls[k].kind = "decodeError"
            /\ calls[k].frame.kind \in {"object", "scalar"} =>
                  /\ calls[k].state = "resolved"
                  /\ calls[k].kind = "result"
                  /\ calls[k].success = calls[k].frame.success
                  /\ calls[k].error_message = calls[k].frame.error_message

\* One call was rejected for a frame that is not JSON, another was resolved with the
\* failure the remote side reported.
C32_Witness ==
    \E j, k \in CallIds :
        /\ calls[j].state = "rejected"
        /\ calls[j].frame.kind = "garbage"
        /\ calls[k].state = "resolved"
        /\ calls[k].frame.kind = "object"
        /\ ~calls[k].success
        /\ calls[k].error_message = "boom"

\* C33: a creation whose set-viewport command the remote side answered with
\* success false does not hand out a session as if the command had succeeded.
C33_NoSwallowedFailure ==
    (last.op = "store_ok" /\ last.call # NoCall) =>
        ~(/\ calls[last.call].state = "resolved"
          /\ calls[last.call].kind = "result"
          /\ ~calls[last.call].success)


\* ============================================================ turns of the event loop
\* closeBrowserGracefully awaits client.close() only, and close() returns without
\* waiting for the socket: the chains suspended at these awaits resume in the
\* microtasks of the turn that suspended them, before the event loop delivers the
\* next socket event.
AtMicrotaskAwait(t) ==
    task[t].pc \in {"closeall_closing", "cleanup_closing", "get_closing", "ensure_closing"}

Settling == \E t \in Tasks : AtMicrotaskAwait(t)

\* Socket events, and the continuations of connect() they resolve or reject, run in
\* a later turn.
TurnWsOpen(c) == ~Settling /\ WsOpen(c)

TurnWsError(c) == ~Settling /\ WsError(c)

TurnWsClose(c) == ~Settling /\ WsClose(c)

TurnCreateOk(t) == ~Settling /\ CreateOk(t)

TurnCreateFail(t) == ~Settling /\ CreateFail(t)

NextTurn ==
    \/ \E t \in Tasks, id \in Ids : createNewBrowserSession(t, id)
    \/ \E t \in Tasks : EnsureDefault(t)
    \/ \E t \in Tasks : TurnCreateOk(t)
    \/ \E t \in Tasks : TurnCreateFail(t)
    \/ \E t \in Tasks : CreateRethrow(t)
    \/ \E t \in Tasks : \E thrown \in SUBSET Registered(browsers) :
          closeAllSessions(t, thrown)
    \/ \E t \in Tasks : CloseAllDone(t)
    \/ \E c \in Conns : TurnWsOpen(c)
    \/ \E c \in Conns : TurnWsError(c)
    \/ \E c \in Conns : TurnWsClose(c)

SpecTurn == Init /\ [][NextTurn]_vars

\* ============================================================ removal from the store
\* The ids create() can have given out.
StoreIds == {<<"uuid", c>> : c \in Conns}

\* The entries of the store under the ids.
Entries(map, ids) == {s \in map : s.id \in ids}

\* A remove that deletes the entry only when close() did not throw.
remove_KeepFailed(map, id, threw) == IF threw THEN map ELSE {s \in map : s.id # id}

\* remove(id) after `await session.client.close()`: the catch logs what close()
\* threw, and `finally { store.delete(id) }` runs either way.
remove(map, id, threw) == {s \in map : s.id # id}

\* The store after the remove() calls for ids have finished.
removeEach(map, ids, thrown) ==
    {s \in map : \A e \in Entries(map, ids) : s \in remove(map, e.id, e.client \in thrown)}

\* remove(id) or removeAll() up to `await session.client.close()`: for ids that have
\* an entry, close() is called on the entry's client, in a try block. removeAll()
\* maps remove over list(), so every call reaches its await before any continues.
RemoveCalled(t, ids, thrown, op) ==
    LET S == StoreClients(Entries(store, ids))
    IN  /\ Free(t)
        /\ ids # {} /\ Entries(store, ids) # {}
        /\ thrown \subseteq {c \in S : ws[c] \in {"connecting", "open"}}
        /\ closeEach(S, thrown)
        /\ task' = [task EXCEPT ![t] =
                      [IdleTask EXCEPT !.pc = "removing", !.op = op,
                                       !.ids = {e.id : e \in Entries(store, ids)},
                                       !.thrown = thrown]]
        /\ last' = [Step("remove_start", NoId) EXCEPT
                       !.via = op, !.removed = ids, !.thrown = thrown]
        /\ UNCHANGED <<callVars, regVars, bulkVars>>

\* remove(id) for an id that has an entry.
RemoveStart(t, id, throws) ==
    /\ id \in StoreIds
    /\ RemoveCalled(t, {id}, IF throws THEN StoreClients(Entries(store, {id})) ELSE {},
                    "remove")

\* removeAll(): remove(s.id) for every entry of list().
RemoveAllStart(t, thrown) ==
    /\ thrown \subseteq StoreClients(store)
    /\ RemoveCalled(t, {s.id : s \in store}, thrown, "removeAll")

\* remove(id) for an id the store has no entry for: it logs and returns. removeAll()
\* on an empty store awaits Promise.all of nothing.
RemoveAbsent(t, id) ==
    /\ Free(t)
    /\ id \in StoreIds /\ Entries(store, {id}) = {}
    /\ last' = [Step("remove_absent", NoId) EXCEPT !.via = "remove", !.removed = {id}]
    /\ UNCHANGED <<connVars, callVars, regVars, task, bulkVars>>

\* The awaits on close() are over: every remove() deletes its id and returns, and
\* the promise of remove(), or Promise.all of them in removeAll(), resolves.
RemoveDone(t) ==
    LET me == task[t]
    IN  /\ me.pc = "removing"
        /\ store' = removeEach(store, me.ids, me.thrown)
        /\ task' = [task EXCEPT ![t] = IdleTask]
        /\ last' = [Step("remove_done", NoId) EXCEPT
                       !.via = me.op, !.removed = me.ids, !.thrown = me.thrown]
        /\ UNCHANGED <<connVars, callVars, regVars, bulk, plan, proc, codec, currentSessionId>>

NextStore ==
    \/ \E t \in Tasks : StoreCreate(t) \/ StoreCreateOk(t) \/ StoreCreateFail(t)
    \/ \E c \in Conns : WsOpen(c) \/ WsError(c) \/ WsClose(c)
    \/ \E t \in Tasks, id \in StoreIds, throws \in BOOLEAN : RemoveStart(t, id, throws)
    \/ \E t \in Tasks, id \in StoreIds : RemoveAbsent(t, id)
    \/ \E t \in Tasks, thrown \in SUBSET Conns : RemoveAllStart(t, thrown)
    \/ \E t \in Tasks : RemoveDone(t)

SpecStore == Init /\ [][NextStore]_vars

\* ============================================================ session tools
\* The tools createMultiSessionAwareTool wraps (navigate, act, extract, observe,
\* screenshot), called with a sessionId; one command of the wrapped handler is
\* followed. The shared Context and the session manager change along: sessions are
\* created in the manager, and the create-session and close-session tools write
\* Context.currentSessionId. Sockets that fail or are closed are followed elsewhere.

\* The clients and the commands followed here.
MaxToolConns == 2
MaxToolCalls == 1

\* A wrapper that hands the shared context itself to the wrapped handler.
contextAfterWrite_Shared(shared, sid) == sid

\* sessionContext = Object.create(context); sessionContext.currentSessionId = sessionId:
\* the write makes a property of sessionContext; context keeps its own.
contextAfterWrite(shared, sid) == shared

\* handleCreateSession after `await createNewBrowserSession(targetSessionId, config)`
\* returned the session: context.currentSessionId = targetSessionId.
ContextSwitch(id) ==
    /\ id \in NamedIds /\ Has(browsers, id)
    /\ currentSessionId # <<id>>
    /\ currentSessionId' = <<id>>
    /\ last' = [Step("context_set", id) EXCEPT !.via = "handleCreateSession"]
    /\ UNCHANGED <<connVars, callVars, regVars, task, store, bulk, plan, proc, codec>>

\* handleCloseSession, step 2: context.currentSessionId = defaultSessionId.
ContextReset ==
    /\ currentSessionId # <<DefaultId>>
    /\ currentSessionId' = <<DefaultId>>
    /\ last' = [Step("context_set", DefaultId) EXCEPT !.via = "handleCloseSession"]
    /\ UNCHANGED <<connVars, callVars, regVars, task, store, bulk, plan, proc, codec>>

\* The wrapper's handle(context, { sessionId, ... }): tzafonwrightStore.get(sessionId);
\* without an entry it throws `Session ${sessionId} not found`; with one it calls the
\* wrapped handler with sessionContext, which awaits
\* sessionContext.getTzafonWrightClient(), that is session.client.
SessionTool(t, sid) ==
    LET found == Entries(store, {sid})
    IN  /\ Free(t)
        /\ sid \in StoreIds /\ sid[2] <= MaxToolConns
        /\ IF found = {}
              THEN /\ last' = [Step("tool_notfound", NoId) EXCEPT
                                  !.via = "sessionTool", !.threw = TRUE,
                                  !.removed = {sid}]
                   /\ UNCHANGED <<task, currentSessionId>>
              ELSE /\ task' = [task EXCEPT ![t] =
                                 [IdleTask EXCEPT
                                     !.pc = "tool_client", !.op = "sessionTool",
                                     !.client = CHOOSE c \in StoreClients(found) : TRUE,
                                     !.sessionContext = sid]]
                   /\ currentSessionId' = contextAfterWrite(currentSessionId, sid)
                   /\ last' = [Step("tool_start", NoId) EXCEPT
                                  !.via = "sessionTool", !.removed = {sid}]
        /\ UNCHANGED <<connVars, callVars, regVars, store, bulk, plan, proc, codec>>

\* The wrapped handler has its client and sends a command on it.
ToolCommand(t, k) ==
    LET me == task[t]
    IN  /\ me.pc = "tool_client"
        /\ k <= MaxToolCalls
        /\ issue(k, me.client, NoHint)
        /\ task' = [task EXCEPT ![t].pc = "tool_waiting", ![t].call = k]
        /\ last' = [Step("tool_send", NoId) EXCEPT
                       !.via = "sessionTool", !.call = k, !.removed = {me.sessionContext}]
        /\ UNCHANGED <<connVars, regVars, bulkVars>>

\* The command's promise settled: the handler throws on a rejection and on a Result
\* with success false, and returns its content otherwise.
ToolDone(t) ==
    LET me == task[t]
        call == calls[me.call]
    IN  /\ me.pc = "tool_waiting"
        /\ call.state \in {"resolved", "rejected"}
        /\ task' = [task EXCEPT ![t] = IdleTask]
        /\ last' = [Step("tool_done", NoId) EXCEPT
                       !.via = "sessionTool", !.call = me.call,
                       !.threw = ~(call.state = "resolved" /\ call.success),
                       !.removed = {me.sessionContext}]
        /\ UNCHANGED <<connVars, callVars, regVars, bulkVars>>

\* Sessions for the tools to find: tzafonwrightStore.create and
\* createNewBrowserSession, up to MaxToolConns clients.
ToolStoreCreate(t) == nextConn < MaxToolConns /\ StoreCreate(t)

ToolCreateNamed(t, id) == nextConn < MaxToolConns /\ createNewBrowserSession(t, id)

NextTool ==
    \/ \E t \in Tasks : ToolStoreCreate(t)
    \/ \E t \in Tasks : StoreCreateOk(t)
    \/ \E t \in Tasks, id \in Ids : ToolCreateNamed(t, id)
    \/ \E t \in Tasks : CreateOk(t)
    \/ \E id \in Ids : ContextSwitch(id)
    \/ ContextReset
    \/ \E t \in Tasks, sid \in StoreIds : SessionTool(t, sid)
    \/ \E t \in Tasks, k \in CallIds : ToolCommand(t, k)
    \/ \E t \in Tasks : ToolDone(t)
    \/ \E c \in Conns : WsOpen(c)
    \/ \E c \in Conns, re \in CallIds, response \in Responses : WsMessage(c, re, response)

SpecTool == Init /\ [][NextTool]_vars

\* ============================================================ response images
\* The character that fills the last group of an encoding.
Pad == 64

\* buffer.toString("base64"): three bytes make four characters, each a number in
\* 0..63 here; one or two bytes left over make two or three, filled up with Pad.
RECURSIVE toBase64(_)
toBase64(b) ==
    IF Len(b) = 0 THEN <<>>
    ELSE IF Len(b) = 1 THEN <<b[1] \div 4, (b[1] % 4) * 16, Pad, Pad>>
    ELSE IF Len(b) = 2
        THEN <<b[1] \div 4, (b[1] % 4) * 16 + b[2] \div 16, (b[2] % 16) * 4, Pad>>
    ELSE <<b[1] \div 4, (b[1] % 4) * 16 + b[2] \div 16,
           (b[2] % 16) * 4 + b[3] \div 64, b[3] % 64>> \o toBase64(SubSeq(b, 4, Len(b)))

\* The characters before the first Pad.
RECURSIVE BeforePad(_)
BeforePad(s) ==
    IF Len(s) = 0 \/ s[1] = Pad THEN <<>> ELSE <<s[1]>> \o BeforePad(Tail(s))

\* Four characters make three bytes; two or three left over make one or two.
RECURSIVE Bytes(_)
Bytes(s) ==
    IF Len(s) < 2 THEN <<>>
    ELSE IF Len(s) = 2 THEN <<s[1] * 4 + s[2] \div 16>>
    ELSE IF Len(s) = 3 THEN <<s[1] * 4 + s[2] \div 16, (s[2] % 16) * 16 + s[3] \div 4>>
    ELSE <<s[1] * 4 + s[2] \div 16, (s[2] % 16) * 16 + s[3] \div 4,
           (s[3] % 4) * 64 + s[4]>> \o Bytes(SubSeq(s, 5, Len(s)))

\* Buffer.from(image, "base64"): decoding stops at the padding.
fromBase64(s) == Bytes(BeforePad(s))

\* The byte sequences of at most MaxImageLen bytes.
Images == UNION {[1..n -> ImageBytes] : n \in 0..MaxImageLen}

\* A response arrives whose image field is the encoding of b.
ImageFrame(b) ==
    /\ codec.stage # "frame"
    /\ codec' = [NoImageFrame EXCEPT !.stage = "frame", !.bytes = b, !.image = toBase64(b)]
    /\ UNCHANGED <<connVars, callVars, regVars, task, last, store, bulk, plan, proc,
                   currentSessionId>>

\* A response arrives that has no image field.
PlainFrame ==
    /\ codec.stage # "frame"
    /\ codec' = [NoImageFrame EXCEPT !.stage = "frame"]
    /\ UNCHANGED <<connVars, callVars, regVars, task, last, store, bulk, plan, proc,
                   currentSessionId>>

\* if (response.image) result.image = Buffer.from(response.image, "base64"):
\* undefined and the empty string are both falsy.
decodeImage ==
    /\ codec.stage = "frame"
    /\ LET truthy == codec.image # NoImage /\ codec.image # <<>>
       IN codec' = [codec EXCEPT !.stage = "result", !.hasImage = truthy,
                                 !.out = IF truthy THEN fromBase64(codec.image) ELSE <<>>]
    /\ UNCHANGED <<connVars, callVars, regVars, task, last, store, bulk, plan, proc,
                   currentSessionId>>

NextCodec ==
    \/ \E b \in Images : ImageFrame(b)
    \/ PlainFrame
    \/ decodeImage

SpecCodec == Init /\ [][NextCodec]_vars

\* C34: every frame that was sent carries the caller's timeout hint when one was
\* given, whatever its numeric value, and 30000 when none was given.
C34_TimeoutIsHint ==
    \A k \in DOMAIN calls :
        calls[k].state \in {"pending", "resolved", "rejected"} /\ calls[k].kind # "notConnected" =>
            calls[k].timeout = IF calls[k].hint = NoHint THEN DefaultTimeout ELSE calls[k].hint

\* C35: a frame whose image field is the base64 encoding of b gives a Result whose
\* image is exactly b, for every byte sequence b.
C35_RoundTrip ==
    codec.stage = "result" /\ codec.image # NoImage =>
        codec.hasImage /\ codec.out = codec.bytes
\* C36: when remove(id) or removeAll() resolves, no entry it was called for is in the
\* store, whether or not a close() threw, and it does not throw; remove(id) for an id
\* without an entry changes nothing.
C36_AlwaysEvicts ==
    [][/\ last'.op = "remove_done" =>
            /\ \A s \in store' : s.id \notin last'.removed
            /\ ~last'.threw
            /\ \A s \in store : s.id \notin last'.removed => s \in store'
       /\ last'.op = "remove_absent" =>
            /\ UNCHANGED <<store, connVars, callVars, regVars>>
            /\ ~last'.threw]_vars

\* A remove whose close() threw has resolved while another entry stayed in the store.
C36_Witness ==
    /\ last.op = "remove_done" /\ last.via = "remove"
    /\ last.thrown # {}
    /\ store # {}
\* C37: when closeAllSessions completes, close() has been called on the client of
\* every session it cleared out of the map and the default slot, also while other
\* chains are creating sessions.
C37_DroppedAreClosed ==
    last.op = "closeall_done" => \A c \in last.dropped : closeInvoked[c]

\* closeAllSessions completed and dropped a session while another chain was waiting
\* for its new client to connect.
C37_Witness ==
    /\ last.op = "closeall_done"
    /\ last.dropped # {}
    /\ \E t \in Tasks : task[t].pc = "connecting"
\* C38: ensureDefaultSessionInternal called while the default session exists and its
\* client is connected creates no client, returns the session in the default slot,
\* leaves the map and the slot as they are, and makes the default id the active id.
C38_HealthyDefault ==
    [][(/\ last'.op \in {"ensure_ok", "ensure_stale", "ensure_create"}
        /\ defaultBrowserSession # NoSession
        /\ isConnected[defaultBrowserSession.client])
       => /\ last'.op = "ensure_ok"
          /\ last'.ret = defaultBrowserSession
          /\ UNCHANGED <<nextConn, browsers, defaultBrowserSession>>
          /\ activeSessionId' = DefaultId]_vars

\* The healthy default session was returned while a named session was registered.
C38_Witness ==
    /\ last.op = "ensure_ok" /\ last.via = "ensureDefault"
    /\ last.live /\ last.ret = defaultBrowserSession
    /\ \E i \in NamedIds : Has(browsers, i)

\* C39: no step of a createNewBrowserSession call whose connection fails changes the
\* map, the default slot or the active id, and the error it throws carries the id it
\* was called with.
C39_FailedCreateKeepsRegistry ==
    [][last'.via = "createNamed" /\ last'.op \in {"create_start", "create_fail", "create_throw"}
       => /\ UNCHANGED regVars
          /\ last'.op = "create_throw" =>
                /\ last'.threw
                /\ \E t \in Tasks : task[t].pc = "create_failed" /\ task[t].id = last'.id
                                      /\ task'[t].pc = "idle"]_vars

\* A createNewBrowserSession call failed while another session was registered and
\* active.
C39_Witness ==
    /\ last.op = "create_throw" /\ last.via = "createNamed" /\ last.threw
    /\ activeSessionId # last.id
    /\ Has(browsers, activeSessionId)
\* C40: a session tool called with sessionId s sends its command on the client the
\* store holds under s and on no other; when the store has no entry for s it throws
\* and sends nothing; and no step of a session tool changes the shared context's
\* currentSessionId or the session manager's active id.
C40_ToolIsolated ==
    [][last' # last /\ last'.via = "sessionTool"
       => /\ UNCHANGED <<currentSessionId, activeSessionId>>
          /\ last'.op = "tool_notfound" => last'.threw /\ UNCHANGED <<callVars, connVars>>
          /\ last'.op = "tool_send" =>
                /\ calls'[last'.call].conn \in StoreClients(Entries(store, last'.removed))
                /\ \A k \in CallIds : k # last'.call => calls'[k] = calls[k]]_vars

\* A session tool sent its command on its own session's client while the shared
\* context and the session manager pointed at another session.
C40_Witness ==
    /\ last.op = "tool_send" /\ last.via = "sessionTool"
    /\ calls[last.call].state = "pending"
    /\ currentSessionId # <<DefaultId>> /\ currentSessionId = <<activeSessionId>>
    /\ browsers[activeSessionId].client # calls[last.call].conn
============================================================================
